---- MODULE Spec2Model ----
(***************************************************************************)
(* a-code: the <a-code> custom element (class ACode) and its Highlighter,  *)
(* which registers CSS Custom Highlights for a text node from a syntax     *)
(* profile (a-code.js v2.0.1).                                             *)
(*                                                                         *)
(* Strings are sequences of one-character strings, offsets are 0-based     *)
(* and ranges are half-open pairs <<start, end>>.                          *)
(***************************************************************************)
EXTENDS Integers, Sequences, FiniteSets, TLC

(***************************************************************************)
(* Bounds of the model.                                                    *)
(***************************************************************************)
\* highlight() invocations, over all instances.
MaxCalls == 2
\* Timer handles the element's debounce may hold at once.
MaxTimers == 2
\* Animation-frame callbacks the element may have requested at once.
MaxRafs == 2

\* The ids of the Highlighter instances: the first and the second constructed.
HIDs == {1, 2}

(***************************************************************************)
(* Strings.                                                                *)
(***************************************************************************)
Min(a, b) == IF a <= b THEN a ELSE b

\* s.substring(from, to) with 0-based, half-open offsets.
Sub(s, from, to) == SubSeq(s, from + 1, to)

\* The letters and digits of the texts of the model (all lower case).
Lower ==
    {"a", "b", "c", "d", "e", "f", "g", "h", "i", "j", "k", "l", "m",
     "n", "o", "p", "q", "r", "s", "t", "u", "v", "w", "x", "y", "z"}
Digits == {"0", "1", "2", "3", "4", "5", "6", "7", "8", "9"}

\* The characters \w of a regular expression that occur in the model.
WordChars == Lower \cup Digits \cup {"_"}

\* Whether the character at 0-based offset k of s exists and is a \w.
IsWordAt(s, k) == k >= 0 /\ k < Len(s) /\ s[k + 1] \in WordChars

\* The assertion \b at offset i of s.
WordBoundary(s, i) == IsWordAt(s, i - 1) # IsWordAt(s, i)

(***************************************************************************)
(* ACode.#resetSpaces: the normalization of the element's content.         *)
(***************************************************************************)
\* The characters String.prototype.trimEnd removes that occur in the model.
WhiteSpace == {" ", "\t", "\n", "\r"}

\* string.replace(/\r\n/g, '\n')
RECURSIVE ReplaceCRLF(_)
ReplaceCRLF(s) ==
    IF s = <<>> THEN <<>>
    ELSE IF Len(s) >= 2 /\ s[1] = "\r" /\ s[2] = "\n"
         THEN <<"\n">> \o ReplaceCRLF(SubSeq(s, 3, Len(s)))
         ELSE <<s[1]>> \o ReplaceCRLF(Tail(s))

\* string.replace(/^\n+/, '')
RECURSIVE StripLeadingNewlines(_)
StripLeadingNewlines(s) ==
    IF s # <<>> /\ s[1] = "\n" THEN StripLeadingNewlines(Tail(s)) ELSE s

\* string.trimEnd()
RECURSIVE TrimEnd(_)
TrimEnd(s) ==
    IF s # <<>> /\ s[Len(s)] \in WhiteSpace
    THEN TrimEnd(SubSeq(s, 1, Len(s) - 1)) ELSE s

\* string.replace(/\t/g, ' ')
TabsToSpaces(s) == [k \in 1..Len(s) |-> IF s[k] = "\t" THEN " " ELSE s[k]]

\* string.split("\n")
RECURSIVE Split(_)
Split(s) ==
    LET at == {k \in 1..Len(s) : s[k] = "\n"}
    IN  IF at = {} THEN <<s>>
        ELSE LET k == CHOOSE i \in at : \A j \in at : i <= j
             IN  <<SubSeq(s, 1, k - 1)>> \o Split(SubSeq(s, k + 1, Len(s)))

\* lines.join("\n")
RECURSIVE Join(_)
Join(lines) ==
    IF Len(lines) = 1 THEN lines[1]
    ELSE lines[1] \o <<"\n">> \o Join(Tail(lines))

\* line.match(/^[ ]*/)[0].length
RECURSIVE LeadingSpaces(_)
LeadingSpaces(line) ==
    IF line # <<>> /\ line[1] = " " THEN 1 + LeadingSpaces(Tail(line)) ELSE 0

\* One line of the map: at most baseIndent leading spaces are removed and
\* each leading space that is left becomes a tab.
CleanLine(line, baseIndent) ==
    LET cut == Min(baseIndent, LeadingSpaces(line))
        cleanLine == SubSeq(line, cut + 1, Len(line))
        n == LeadingSpaces(cleanLine)
    IN  [k \in 1..n |-> "\t"] \o SubSeq(cleanLine, n + 1, Len(cleanLine))

\* Each stage (the trimmed string, its lines) is computed once and handed on
\* as a value.
ResetSpaces(string) ==
    LET Mapped(lines) ==
            LET baseIndent == LeadingSpaces(lines[1])
            IN  Join([k \in 1..Len(lines) |-> CleanLine(lines[k], baseIndent)])
        Rest(trimmed) ==
            IF trimmed = <<>> THEN <<>>
            ELSE CHOOSE r \in {Mapped(lines) : lines \in {Split(TabsToSpaces(trimmed))}} : TRUE
    IN  CHOOSE r \in {Rest(trimmed) :
                        trimmed \in {TrimEnd(StripLeadingNewlines(ReplaceCRLF(string)))}} : TRUE

\* textContent.split(/\n/).length
LineCount(s) == Len(Split(s))

(***************************************************************************)
(* Regular expressions.  A RegExp is modelled as an ordered alternation of *)
(* literal words, optionally wrapped in \b( ... )\b, with or without the   *)
(* g flag: [alts, wb, g].  An empty alternation matches nowhere.           *)
(***************************************************************************)
RegExp(alts, wb, g) == [alts |-> alts, wb |-> wb, g |-> g]

\* Whether alternative w matches at offset i of s.
AltMatches(re, w, s, i) ==
    /\ i + Len(w) <= Len(s)
    /\ Sub(s, i, i + Len(w)) = w
    /\ re.wb => (WordBoundary(s, i) /\ WordBoundary(s, i + Len(w)))

\* The length of the match of re at offset i (the first alternative, in
\* order, that matches), or -1.
MatchAt(re, s, i) ==
    LET hits == {k \in 1..Len(re.alts) : AltMatches(re, re.alts[k], s, i)}
    IN  IF hits = {} THEN -1
        ELSE Len(re.alts[CHOOSE k \in hits : \A m \in hits : k <= m])

\* A scan that looks for the next match one character after the start of the
\* last one.
RECURSIVE MatchAllFromOverlap(_, _, _)
MatchAllFromOverlap(re, s, i) ==
    IF i > Len(s) THEN <<>>
    ELSE LET n == MatchAt(re, s, i)
         IN  IF n < 0 THEN MatchAllFromOverlap(re, s, i + 1)
             ELSE <<<<i, i + n>>>> \o MatchAllFromOverlap(re, s, i + 1)

\* string.matchAll(regex): the matches <<index, index + length>> found
\* scanning from offset i; after an empty match the scan advances by one.
RECURSIVE MatchAllFrom(_, _, _)
MatchAllFrom(re, s, i) ==
    IF i > Len(s) THEN <<>>
    ELSE LET n == MatchAt(re, s, i)
         IN  IF n < 0 THEN MatchAllFrom(re, s, i + 1)
             ELSE <<<<i, i + n>>>> \o
                  MatchAllFrom(re, s, IF n = 0 THEN i + 1 ELSE i + n)

MatchAll(re, s) == MatchAllFrom(re, s, 0)

\* The result of a call that may throw: the ranges it returned.
Returned(ranges) == [threw |-> FALSE, ranges |-> ranges]
Thrown == [threw |-> TRUE, ranges |-> {}]

\* A loop over the matches that keeps the empty ones.
RangesOfAll(ms) == ms

\* The loop of #setRanges over the matches: the Ranges added to the set, in
\* order (`if (match[0].length === 0) continue`).
RangesOf(ms) ==
    LET NonEmpty(m) == m[2] > m[1]
    IN  SelectSeq(ms, NonEmpty)

\* Highlighter.#setRanges: one Range per non-empty match.  matchAll throws
\* a TypeError for a RegExp without the g flag.
SetRanges(re, s) ==
    IF ~re.g THEN Thrown
    ELSE LET rs == RangesOf(MatchAll(re, s))
         IN  Returned({rs[k] : k \in 1..Len(rs)})

(***************************************************************************)
(* Syntax profiles.  A profile is the ordered list of the entries of the   *)
(* definitions object, [name, rule]; Undefined is the value of a module    *)
(* without a default export.  A rule value is null, another falsy value    *)
(* (false, 0, ''), an array of words, a function, a RegExp, or any other   *)
(* truthy value (a string, a number, a plain object).                      *)
(***************************************************************************)
NoRe == RegExp(<<>>, FALSE, TRUE)
Rule(kind, re, words, fn) == [kind |-> kind, re |-> re, words |-> words, fn |-> fn]
NullRule == Rule("null", NoRe, <<>>, "")
FalsyRule == Rule("falsy", NoRe, <<>>, "")
InvalidRule == Rule("invalid", NoRe, <<>>, "")
ArrayRule(words) == Rule("array", NoRe, words, "")
FnRule(fn) == Rule("function", NoRe, <<>>, fn)
ReRule(re) == Rule("regexp", re, <<>>, "")

Entry(name, rule) == [name |-> name, rule |-> rule]
Profile(entries) == [tag |-> "object", entries |-> entries]
Undefined == [tag |-> "undefined", entries |-> <<>>]

\* Object.keys(defs).
Keys(defs) == {defs.entries[k].name : k \in 1..Len(defs.entries)}

\* [...new Set(value)]: the words in order of first occurrence.
RECURSIVE Dedupe(_)
Dedupe(ws) ==
    IF ws = <<>> THEN <<>>
    ELSE LET init == Dedupe(SubSeq(ws, 1, Len(ws) - 1))
             last == ws[Len(ws)]
         IN  IF \E k \in 1..Len(init) : init[k] = last THEN init
             ELSE Append(init, last)

\* new RegExp(`\\b(${words})\\b`, "g") of the escaped, de-duplicated words
\* joined by "|": an empty list joins to the single empty alternative.
KeywordRegExp(words) ==
    LET d == Dedupe(words)
    IN  RegExp(IF d = <<>> THEN << <<>> >> ELSE d, TRUE, TRUE)

\* The custom scanner functions of the model: value(string, textNode).
\*   "throws"  raises an error;
\*   "strict"  raises an error on a text that holds "=", and otherwise
\*             returns what "whole" returns;
\*   "whole"   returns one range covering a non-empty text.
ScannerCall(fn, s) ==
    IF fn = "throws" \/ (fn = "strict" /\ \E k \in 1..Len(s) : s[k] = "=")
    THEN Thrown
    ELSE Returned(IF Len(s) > 0 THEN {<<0, Len(s)>>} ELSE {})

(***************************************************************************)
(* The console.                                                            *)
(***************************************************************************)
Diag(level, msg, prop, url) ==
    [level |-> level, msg |-> msg, prop |-> prop, url |-> url]
WarnInvalid(prop) == Diag("warn", "Invalid syntax definition for", prop, <<>>)
ErrHighlighting == Diag("error", "Error highlighting code:", "", <<>>)
WarnLoad(url) == Diag("warn", "Could not load syntax file", "", url)

(***************************************************************************)
(* CSS.highlights: the registry, a Map in insertion order, of the          *)
(* highlights named `${key}-${id}`.  A Highlight holds the ranges and the  *)
(* text of the node they are set on.                                       *)
(***************************************************************************)
RegIndex(reg, key, id) ==
    LET at == {k \in 1..Len(reg) : reg[k].key = key /\ reg[k].id = id}
    IN  IF at = {} THEN 0 ELSE CHOOSE k \in at : TRUE

RegHas(reg, key, id) == RegIndex(reg, key, id) # 0

\* A registry that puts a new name before the names it holds.
RegSetFront(reg, e) ==
    LET k == RegIndex(reg, e.key, e.id)
    IN  IF k = 0 THEN <<e>> \o reg ELSE [reg EXCEPT ![k] = e]

\* CSS.highlights.set(name, highlight).
RegSet(reg, e) ==
    LET k == RegIndex(reg, e.key, e.id)
    IN  IF k = 0 THEN Append(reg, e) ELSE [reg EXCEPT ![k] = e]

\* CSS.highlights.delete(name) for every name in names.
RECURSIVE RegDelete(_, _, _)
RegDelete(reg, keys, id) ==
    IF reg = <<>> THEN <<>>
    ELSE LET rest == RegDelete(Tail(reg), keys, id)
         IN  IF Head(reg).id = id /\ Head(reg).key \in keys THEN rest
             ELSE <<Head(reg)>> \o rest

\* The entries of the registry named with id.
RegOf(reg, id) == {reg[k] : k \in {j \in 1..Len(reg) : reg[j].id = id}}

\* Highlighter.#applyHighlight.
ApplyHighlight(reg, ranges, key, id, s) ==
    IF ranges = {} THEN reg
    ELSE RegSet(reg, [key |-> key, id |-> id, ranges |-> ranges, text |-> s])

\* Highlighter.#deleteCssHighlights.
DeleteCssHighlights(reg, defs, id) ==
    IF defs.tag = "undefined" THEN reg ELSE RegDelete(reg, Keys(defs), id)

(***************************************************************************)
(* Highlighter.#doHighlights.                                              *)
(***************************************************************************)
\* The ranges a rule extracts from s: SetRanges, or the scanner's result.
Extract(rule, s) ==
    CASE rule.kind = "array" -> SetRanges(KeywordRegExp(rule.words), s)
      [] rule.kind = "function" -> ScannerCall(rule.fn, s)
      [] rule.kind = "regexp" -> SetRanges(rule.re, s)
      [] OTHER -> Returned({})

\* `if (!value) continue`.
IsSkipped(rule) == rule.kind \in {"null", "falsy"}

\* The final else branch: a value of no rule kind.
IsUnrecognized(rule) == rule.kind = "invalid"

\* An else branch that skips the entry without a diagnostic.
LogInvalidSilent(lg, prop) == lg

\* console.warn(`Invalid syntax definition for ${prop}`).
LogInvalid(lg, prop) == lg \cup {WarnInvalid(prop)}

Pass(reg, lg, threw) == [reg |-> reg, log |-> lg, threw |-> threw]

\* What a rule that throws does to the loop: the error leaves #doHighlights.
RuleThrew(reg, lg) == Pass(reg, lg, TRUE)

\* The loop over Object.entries(syntaxObj) from entry i on.
RECURSIVE DoEntries(_, _, _, _, _, _)
DoEntries(es, i, s, id, reg, lg) ==
    IF i > Len(es) THEN Pass(reg, lg, FALSE)
    ELSE LET prop == es[i].name
             rule == es[i].rule
         IN  IF IsSkipped(rule) THEN DoEntries(es, i + 1, s, id, reg, lg)
             ELSE IF IsUnrecognized(rule)
                  THEN DoEntries(es, i + 1, s, id, reg, LogInvalid(lg, prop))
             ELSE LET r == Extract(rule, s)
                  IN  IF r.threw THEN RuleThrew(reg, lg)
                      ELSE DoEntries(es, i + 1, s, id,
                                     ApplyHighlight(reg, r.ranges, prop, id, s), lg)

\* A text node, or the absence of one (null).
Node(s) == [present |-> TRUE, text |-> s]
NoNode == [present |-> FALSE, text |-> <<>>]

\* #doHighlights(syntaxObj, textNode): textNode.nodeType of null and
\* Object.entries(undefined) raise a TypeError.
DoHighlights(defs, node, id, reg, lg) ==
    IF ~node.present \/ defs.tag = "undefined" THEN Pass(reg, lg, TRUE)
    ELSE DoEntries(defs.entries, 1, node.text, id, reg, lg)

(***************************************************************************)
(* Profile identifiers, resources and the profiles of the model.           *)
(***************************************************************************)
Html == <<"h", "t", "m", "l">>
Js == <<"j", "s">>
NoDefault == <<"n", "d">>
Missing == <<"b", "a", "d">>
Custom == <<"c", "u", "s", "t", "o", "m">>

\* /^(http|\.|\/)/.test(syntax)
IsPathLike(name) ==
    \/ Len(name) >= 1 /\ name[1] \in {".", "/"}
    \/ Len(name) >= 4 /\ SubSeq(name, 1, 4) = <<"h", "t", "t", "p">>

\* The module specifier #getSyntaxDefs imports for a named profile.
Url(name) ==
    IF IsPathLike(name) THEN name
    ELSE <<".", "/", "s", "y", "n", "t", "a", "x", ".">> \o name \o <<".", "j", "s">>

\* A syntax argument of the Highlighter: a name (a string; '' stands for
\* every falsy value) or a literal definitions object.
Named(name) == [kind |-> "name", name |-> name, obj |-> Undefined]
Literal(defs) == [kind |-> "object", name |-> <<>>, obj |-> defs]

\* Highlighter.#defaultSyntaxDefs, on texts over the letters a and b, the
\* space, the tab, the line breaks and "=": of its ten patterns only
\* `operator`, /[>~+*|=^$]/g, can match such a text (at each "="); every
\* other pattern needs a character outside that alphabet.
NeverMatches == ReRule(RegExp(<<>>, FALSE, TRUE))
DefaultSyntaxDefs ==
    Profile(<< Entry("argument", NeverMatches),
               Entry("operator", ReRule(RegExp(<< <<"=">> >>, FALSE, TRUE))),
               Entry("property", NeverMatches),
               Entry("number", NeverMatches),
               Entry("tag", NeverMatches),
               Entry("comment", NeverMatches),
               Entry("keyword", NeverMatches),
               Entry("variable", NeverMatches),
               Entry("function", NeverMatches),
               Entry("string", NeverMatches) >>)

\* The default export of ./syntax.js.js: a keyword list, a pattern and a
\* custom scanner.
JsDefs ==
    Profile(<< Entry("keyword", ArrayRule(<< <<"a">>, <<"a">> >>)),
               Entry("comment", ReRule(RegExp(<< <<"b">> >>, FALSE, TRUE))),
               Entry("argument", FnRule("strict")) >>)

\* Literal profiles passed to the constructor.
LitRules ==
    Profile(<< Entry("keyword", ArrayRule(<< <<"a">> >>)),
               Entry("wrong", InvalidRule),
               Entry("off", FalsyRule),
               Entry("none", NullRule),
               Entry("comment", FnRule("whole")),
               Entry("string", ReRule(RegExp(<< <<"b">> >>, FALSE, TRUE))) >>)
LitThrows ==
    Profile(<< Entry("keyword", ArrayRule(<< <<"a">> >>)),
               Entry("argument", FnRule("throws")),
               Entry("string", ReRule(RegExp(<< <<"b">> >>, FALSE, TRUE))) >>)

\* The default export of ./syntax.custom.js.
CustomDefs ==
    Profile(<< Entry("string", ReRule(RegExp(<< <<"b">> >>, FALSE, TRUE))),
               Entry("tag", ReRule(RegExp(<< <<"b">>, <<"a">> >>, FALSE, TRUE))) >>)

\* A literal profile with the entries of CustomDefs in reverse order.
LitReversed ==
    Profile(<< Entry("tag", ReRule(RegExp(<< <<"b">>, <<"a">> >>, FALSE, TRUE))),
               Entry("string", ReRule(RegExp(<< <<"b">> >>, FALSE, TRUE))) >>)

Names == {Html, Js, NoDefault, Missing, Custom}
Syntaxes ==
    {Named(n) : n \in {Html, Js, NoDefault, Missing}}
        \cup {Literal(LitRules), Literal(LitThrows)}

\* The syntax arguments of the pages that have a profile named 'custom'.
CacheSyntaxes == {Named(Custom), Literal(LitRules), Literal(LitReversed)}

\* What import(url) can settle to: the module's default export ("ok"), a
\* module without a default export ("nodefault"), or a rejection
\* ("reject": the resource is missing, or the load failed this time).
ImportOutcomes(url) ==
    CASE url = Url(Js) -> {"ok", "reject"}
      [] url = Url(Custom) -> {"ok", "reject"}
      [] url = Url(NoDefault) -> {"nodefault"}
      [] OTHER -> {"reject"}

\* module.default of the module at url.
ModuleDefault(url, outcome) ==
    IF outcome = "ok" /\ url = Url(Js) THEN JsDefs
    ELSE IF outcome = "ok" /\ url = Url(Custom) THEN CustomDefs
    ELSE Undefined

\* The texts of the text nodes handed to highlight().
Texts == { <<"a", "=", "b">>, <<"b">> }

(***************************************************************************)
(* State.                                                                  *)
(***************************************************************************)
VARIABLES
    hl,            \* the Highlighter instances, by id
    pending,       \* highlight() invocations awaiting import(url)
    microq,        \* invocations whose #getSyntaxDefs promise has resolved, in order
    syntaxCache,   \* the module-level Map syntaxCache
    highlights,    \* CSS.highlights
    log,           \* what was written to the console
    appliedSeq,    \* per instance, the request ids that passed the staleness check, in order
    superseded,    \* per instance, the request ids that were in flight when a later one started
    lastPass,      \* per instance, the last #doHighlights run
    importCount,   \* per identifier, the import() calls started
    failedLoads,   \* the identifiers whose load has failed
    lastGood,      \* the registry entries of the last pass that succeeded
    el,            \* the private fields of the ACode element
    dom,           \* its attributes, its light-DOM content and its shadow DOM
    timers,        \* the pending setTimeout callbacks of #update
    rafs,          \* the pending requestAnimationFrame callbacks of #update
    moPending,     \* the MutationObserver has records to deliver
    lastRun,       \* the last run of the #update timer callback
    arg,           \* the text a scanner or rule is applied to, as its parts
    res            \* the ranges the scanner or rule returned for it

hvars == <<hl, pending, microq, syntaxCache, highlights, log, superseded, importCount>>
evars == <<el, dom, timers, rafs, moPending, lastRun>>
svars == <<arg, res>>
vars == <<hl, pending, microq, syntaxCache, highlights, log,
          appliedSeq, superseded, lastPass, importCount, failedLoads, lastGood,
          el, dom, timers, rafs, moPending, lastRun, arg, res>>

NotMade ==
    [made |-> FALSE, syntax |-> Named(<<>>), defs |-> Profile(<<>>),
     textNode |-> NoNode, latestRequestId |-> 0, element |-> FALSE]

NoPass ==
    [ran |-> FALSE, req |-> 0, defs |-> Profile(<<>>), node |-> NoNode,
     threw |-> FALSE, loadFailed |-> FALSE]

CacheKeys == Names \cup {Custom}
NotCached == [has |-> FALSE, val |-> Undefined]
Cached(defs) == [has |-> TRUE, val |-> defs]

\* The value of an attribute, or its absence (null).
Attr(val) == [present |-> TRUE, val |-> val]
AttrAbsent == [present |-> FALSE, val |-> <<>>]
FalseStr == <<"f", "a", "l", "s", "e">>

\* The observed attributes other than highlight, and the values 'pre',
\* 'nowrap' and 'default'.
AttrNames == {"inline", "indent", "line-numbers", "palette", "wrap"}
Pre == <<"p", "r", "e">>
NoWrap == <<"n", "o", "w", "r", "a", "p">>
Default == <<"d", "e", "f", "a", "u", "l", "t">>

\* A number, or NaN.
Num(n) == [nan |-> FALSE, n |-> n]
NaN == [nan |-> TRUE, n |-> 0]

\* parseFloat(newval) of a string of one digit, of another string, of null.
ParseFloat(v) ==
    IF v.present /\ Len(v.val) = 1 /\ v.val[1] \in Digits
    THEN Num(CHOOSE n \in 0..9 :
                 <<"0", "1", "2", "3", "4", "5", "6", "7", "8", "9">>[n + 1] = v.val[1])
    ELSE NaN

\* String(number), for NaN and the numbers of one digit.
NumToString(x) ==
    IF x.nan THEN <<"N", "a", "N">>
    ELSE <<(<<"0", "1", "2", "3", "4", "5", "6", "7", "8", "9">>)[x.n + 1]>>

\* `newval !== 'false' && newval !== null`.
BoolAttr(v) == v.present /\ v.val # FalseStr

\* The field #highlight: false, or the name of a syntax.
HighlightOff == [on |-> FALSE, name |-> <<>>]
HighlightOn(name) == [on |-> TRUE, name |-> name]

\* The field #lastContent: null, or a string.
NoContent == [has |-> FALSE, text |-> <<>>]
Content(s) == [has |-> TRUE, text |-> s]

NoRun == [ran |-> FALSE, replaced |-> FALSE, noop |-> FALSE]

\* The contents the light DOM of the element takes.
RawTexts == { <<"a">>, <<"b", "\n", " ", "=">> }

\* The values the highlight attribute takes.
HighlightAttrs == {Attr(FalseStr), Attr(Js)}

\* The page before any script has run: no Highlighter, an element that has
\* been created and is not connected.
Idle ==
    /\ hl = [h \in HIDs |-> NotMade]
    /\ pending = {}
    /\ microq = <<>>
    /\ syntaxCache = [k \in CacheKeys |-> NotCached]
    /\ highlights = <<>>
    /\ log = {}
    /\ appliedSeq = [h \in HIDs |-> <<>>]
    /\ superseded = [h \in HIDs |-> {}]
    /\ lastPass = [h \in HIDs |-> NoPass]
    /\ importCount = [n \in Names |-> 0]
    /\ failedLoads = {}
    /\ lastGood = {}
    /\ el = [connected |-> FALSE, lastContent |-> NoContent,
             highlight |-> HighlightOff, lineNumbers |-> FALSE,
             inline |-> FALSE, indent |-> Num(2), palette |-> AttrAbsent,
             wrap |-> Attr(Pre),
             highlighter |-> 0, updateTimeout |-> 0, fromUpdate |-> FALSE]
    /\ dom = [light |-> <<>>, content |-> <<>>, gutter |-> <<>>,
              attrHighlight |-> AttrAbsent,
              attr |-> [a \in AttrNames |-> AttrAbsent]]
    /\ timers = {}
    /\ rafs = 0
    /\ moPending = FALSE
    /\ lastRun = NoRun

\* No scanner has been called.
NoArg == [kind |-> "", head |-> 0, params |-> <<>>]
NoRes == [done |-> FALSE, ranges |-> <<>>]

Init == Idle /\ arg = NoArg /\ res = NoRes

(***************************************************************************)
(* The Highlighter.  Its methods are written as functions of the part of   *)
(* the state they read and write (a "world" w), so that a caller which     *)
(* runs several of them in one task composes them.                         *)
(***************************************************************************)
World ==
    [hl |-> hl, pending |-> pending, microq |-> microq, cache |-> syntaxCache,
     reg |-> highlights, log |-> log, sup |-> superseded, imports |-> importCount]

Commit(w) ==
    /\ hl' = w.hl
    /\ pending' = w.pending
    /\ microq' = w.microq
    /\ syntaxCache' = w.cache
    /\ highlights' = w.reg
    /\ log' = w.log
    /\ superseded' = w.sup
    /\ importCount' = w.imports

\* An invocation of highlight() suspended at `await this.#getSyntaxDefs()`.
Waiting(h, req, name) == [h |-> h, req |-> req, name |-> name]
Resolved(h, req, defs, loadFailed) ==
    [h |-> h, req |-> req, defs |-> defs, loadFailed |-> loadFailed]

\* The request ids of the invocations of instance h still in flight.
InFlight(w, h) ==
    {c.req : c \in {d \in w.pending : d.h = h}}
        \cup {w.microq[k].req : k \in {j \in 1..Len(w.microq) : w.microq[j].h = h}}

\* new Highlighter(element, syntax, palette): the instance with id h.
Construct(w, h, syn) ==
    [w EXCEPT !.hl[h] =
        [made |-> TRUE, syntax |-> syn, defs |-> Profile(<<>>),
         textNode |-> NoNode, latestRequestId |-> 0, element |-> TRUE]]

\* Highlighter.destroy().
Destroy(w, h) ==
    [w EXCEPT !.reg = DeleteCssHighlights(w.reg, w.hl[h].defs, h),
              !.hl[h].element = FALSE,
              !.hl[h].textNode = NoNode]

\* `if (syntaxCache.has(syntax)) return syntaxCache.get(syntax)`.
CacheHit(cache, name) == cache[name].has

\* #getSyntaxDefs up to its first suspension, for invocation (h, req): the
\* promise is already resolved (the invocation joins the microtask queue),
\* or import(url) has been started.
GetSyntaxDefs(w, h, req) ==
    LET syn == w.hl[h].syntax
    IN  IF syn.kind = "name" /\ (syn.name = <<>> \/ syn.name = Html)
        THEN [w EXCEPT !.microq = Append(@, Resolved(h, req, DefaultSyntaxDefs, FALSE))]
        ELSE IF syn.kind = "object"
        THEN [w EXCEPT !.cache[Custom] = Cached(syn.obj),
                       !.microq = Append(@, Resolved(h, req, syn.obj, FALSE))]
        ELSE IF CacheHit(w.cache, syn.name)
        THEN [w EXCEPT !.microq =
                  Append(@, Resolved(h, req, w.cache[syn.name].val, FALSE))]
        ELSE [w EXCEPT !.pending = @ \cup {Waiting(h, req, syn.name)},
                       !.imports[syn.name] = @ + 1]

\* highlight(textNode) up to its await.  Without a text node, given or
\* remembered, it returns at once.
Highlight(w, h, node) ==
    LET tn == IF node.present THEN node ELSE w.hl[h].textNode
        req == w.hl[h].latestRequestId + 1
        w1 == [w EXCEPT !.hl[h].textNode = tn]
    IN  IF ~tn.present THEN w1
        ELSE GetSyntaxDefs(
                 [w1 EXCEPT !.hl[h].latestRequestId = req,
                            !.sup[h] = @ \cup InFlight(w, h)],
                 h, req)

\* A highlight() that applies every result, whatever its generation.
IsStaleNever(w, c) == FALSE

\* `if (currentRequestId !== this.#latestRequestId) return`.
IsStale(w, c) == c.req # w.hl[c.h].latestRequestId

\* What the catch block of highlight() does with an error of #doHighlights.
CatchHighlight(pass) ==
    IF pass.threw THEN pass.log \cup {ErrHighlighting} ELSE pass.log

(***************************************************************************)
(* Actions of the Highlighter API.                                         *)
(***************************************************************************)
\* The highlight() invocations made so far.
TotalCalls == hl[1].latestRequestId + hl[2].latestRequestId

\* new Highlighter(...), instances being numbered in order of construction.
New(h, syn) ==
    /\ ~hl[h].made
    /\ \A g \in HIDs : g < h => hl[g].made
    /\ Commit(Construct(World, h, syn))
    /\ UNCHANGED <<appliedSeq, lastPass, failedLoads, lastGood, evars>>
    /\ UNCHANGED svars

\* highlighter.highlight(textNode), or highlight() when node is NoNode.
CallHighlight(h, node) ==
    /\ hl[h].made
    /\ TotalCalls < MaxCalls
    /\ Commit(Highlight(World, h, node))
    /\ UNCHANGED <<appliedSeq, lastPass, failedLoads, lastGood, evars>>
    /\ UNCHANGED svars

\* highlighter.destroy().
CallDestroy(h) ==
    /\ hl[h].made
    /\ Commit(Destroy(World, h))
    /\ UNCHANGED <<appliedSeq, lastPass, failedLoads, lastGood, evars>>
    /\ UNCHANGED svars

\* import(url) settles and #getSyntaxDefs runs to its return.
ImportSettles(c, outcome) ==
    LET url == Url(c.name)
        defs == ModuleDefault(url, outcome)
    IN  /\ c \in pending
        /\ outcome \in ImportOutcomes(url)
        /\ pending' = pending \ {c}
        /\ IF outcome = "reject"
           THEN /\ log' = log \cup {WarnLoad(url)}
                /\ microq' = Append(microq, Resolved(c.h, c.req, DefaultSyntaxDefs, TRUE))
                /\ UNCHANGED syntaxCache
           ELSE /\ syntaxCache' = [syntaxCache EXCEPT ![c.name] = Cached(defs)]
                /\ microq' = Append(microq,
                                    Resolved(c.h, c.req, defs, defs.tag = "undefined"))
                /\ UNCHANGED log
        /\ failedLoads' = IF outcome = "ok" THEN failedLoads
                          ELSE failedLoads \cup {c.name}
        /\ UNCHANGED <<hl, highlights, appliedSeq, superseded, lastPass, importCount,
                       lastGood, evars>>
        /\ UNCHANGED svars

\* highlight() resumes after its await: the staleness check, then the pass.
Resume ==
    /\ microq # <<>>
    /\ LET c == Head(microq)
           h == c.h
       IN  /\ microq' = Tail(microq)
           /\ IF IsStale(World, c)
              THEN UNCHANGED <<hl, highlights, log, appliedSeq, lastPass, lastGood>>
              ELSE \E pass \in {DoHighlights(c.defs, hl[h].textNode, h, highlights, log)} :
                   /\ hl' = [hl EXCEPT ![h].defs = c.defs]
                   /\ lastGood' = IF pass.threw \/ c.loadFailed THEN lastGood
                                  ELSE RegOf(pass.reg, h)
                   /\ highlights' = pass.reg
                   /\ log' = CatchHighlight(pass)
                   /\ appliedSeq' = [appliedSeq EXCEPT ![h] = Append(@, c.req)]
                   /\ lastPass' = [lastPass EXCEPT ![h] =
                          [ran |-> TRUE, req |-> c.req, defs |-> c.defs,
                           node |-> hl[h].textNode, threw |-> pass.threw,
                           loadFailed |-> c.loadFailed]]
    /\ UNCHANGED <<pending, syntaxCache, superseded, importCount, failedLoads, evars>>
    /\ UNCHANGED svars

Next ==
    \/ \E h \in HIDs, syn \in Syntaxes : New(h, syn)
    \/ \E h \in HIDs, t \in Texts : CallHighlight(h, Node(t))
    \/ \E h \in HIDs : CallHighlight(h, NoNode)
    \/ \E h \in HIDs : CallDestroy(h)
    \/ \E c \in pending, o \in {"ok", "nodefault", "reject"} : ImportSettles(c, o)
    \/ Resume

Spec == Init /\ [][Next]_vars

\* The Highlighter API on a page that has a profile named 'custom'.
NextCache ==
    \/ \E h \in HIDs, syn \in CacheSyntaxes : New(h, syn)
    \/ \E h \in HIDs, t \in Texts : CallHighlight(h, Node(t))
    \/ \E h \in HIDs : CallDestroy(h)
    \/ \E c \in pending, o \in {"ok", "reject"} : ImportSettles(c, o)
    \/ Resume

SpecCache == Init /\ [][NextCache]_vars

(***************************************************************************)
(* The ACode element.  #contentNode and #lineNumberElem are set exactly    *)
(* while the element is connected.  Styles and the a-bind notifications    *)
(* are not part of the state.  The element and its DOM are passed as a     *)
(* pair x = [el, dom] through the methods that write both.                 *)
(***************************************************************************)
\* attributeChangedCallback, case "highlight": the value of #highlight.
HighlightValue(newval) ==
    IF newval.present /\ newval.val = FalseStr THEN HighlightOff
    ELSE IF ~newval.present \/ newval.val = <<>> THEN HighlightOn(Html)
    ELSE HighlightOn(newval.val)

\* The id of the next Highlighter constructed, 0 when the model has none left.
FreshH(w) ==
    LET free == {h \in HIDs : ~w.hl[h].made}
    IN  IF free = {} THEN 0 ELSE CHOOSE h \in free : \A g \in free : h <= g

\* Whether #highlightCode(syntax) would construct a Highlighter.
Constructs(e, syntax) == e.connected /\ syntax.on

\* An element whose highlighter, when destroyed, leaves its entries in the
\* registry.
DestroyHighlightsKeep(w, e) ==
    IF e.highlighter = 0 THEN w
    ELSE [Destroy(w, e.highlighter) EXCEPT !.reg = w.reg]

\* ACode.#destroyHighlights.
DestroyHighlights(w, e) ==
    IF e.highlighter = 0 THEN w ELSE Destroy(w, e.highlighter)

\* ACode.#highlightCode(syntax): the world and the fields of the element
\* after it.  The text node is the first child of #content, which has one
\* exactly when its text is not empty.
HighlightCode(w, e, d, syntax, cause) ==
    IF ~e.connected THEN [w |-> w, el |-> e]
    ELSE LET w1 == DestroyHighlights(w, e)
             h == FreshH(w1)
             w2 == Construct(w1, h, Named(syntax.name))
         IN  IF ~syntax.on THEN [w |-> w1, el |-> e]
             ELSE [w |-> IF d.content # <<>> THEN Highlight(w2, h, Node(d.content))
                         ELSE w2,
                   el |-> [e EXCEPT !.highlighter = h, !.fromUpdate = cause = "content"]]

\* `this.inline = false`: toggleAttribute('inline', false) removes the
\* attribute if it is there, and attributeChangedCallback runs for it.
InlineOff(x) ==
    IF ~x.dom.attr["inline"].present THEN x
    ELSE [x EXCEPT !.dom.attr["inline"] = AttrAbsent, !.el.inline = FALSE]

\* `this.lineNumbers = false`: toggleAttribute('line-numbers', false), and
\* attributeChangedCallback with #setLineNumbers(false) if it was there.
LineNumbersOff(x) ==
    IF ~x.dom.attr["line-numbers"].present THEN x
    ELSE [x EXCEPT !.dom.attr["line-numbers"] = AttrAbsent,
                   !.el.lineNumbers = FALSE,
                   !.dom.gutter = IF x.el.connected THEN <<>> ELSE @]

\* A #setInline that leaves the line numbers as they are.
SetInlineOnly(x, value) == [x EXCEPT !.el.inline = value]

\* ACode.#setInline(value).
SetInline(x, value) ==
    LET x1 == [x EXCEPT !.el.inline = value]
    IN  IF value THEN LineNumbersOff(x1) ELSE x1

\* A #setLineNumbers that leaves the gutter as it is when the value is false.
SetLineNumbersKeep(e, d, value) ==
    IF ~e.connected \/ ~value THEN [el |-> e, dom |-> d]
    ELSE InlineOff([el |-> e,
                    dom |-> [d EXCEPT !.gutter = [k \in 1..LineCount(d.content) |-> k]]])

\* ACode.#setLineNumbers(value): the element and the DOM after it.  The
\* gutter text is the sequence of the numbers it joins by newlines.
SetLineNumbers(e, d, value) ==
    IF ~e.connected THEN [el |-> e, dom |-> d]
    ELSE IF value
    THEN InlineOff([el |-> e,
                    dom |-> [d EXCEPT !.gutter = [k \in 1..LineCount(d.content) |-> k]]])
    ELSE [el |-> e, dom |-> [d EXCEPT !.gutter = <<>>]]

\* attributeChangedCallback(attr, oldval, newval) for the attributes other
\* than highlight.
AttributeChanged(x, attr, oldval, newval) ==
    IF oldval = newval THEN x
    ELSE CASE attr = "inline" -> SetInline(x, BoolAttr(newval))
           [] attr = "indent" -> [x EXCEPT !.el.indent = ParseFloat(newval)]
           [] attr = "line-numbers" ->
                  SetLineNumbers([x.el EXCEPT !.lineNumbers = BoolAttr(newval)],
                                 x.dom, BoolAttr(newval))
           [] attr = "palette" -> [x EXCEPT !.el.palette = newval]
           [] attr = "wrap" -> [x EXCEPT !.el.wrap = newval]

\* setAttribute(attr, v), or removeAttribute(attr) when v is absent, and the
\* attributeChangedCallback the DOM then calls.
SetAttributeOf(x, attr, v) ==
    AttributeChanged([x EXCEPT !.dom.attr[attr] = v], attr, x.dom.attr[attr], v)

\* An #update that schedules its callback and leaves the earlier one pending.
ClearTimeoutNever(ts, id) == ts

\* clearTimeout(id).
ClearTimeout(ts, id) == {t \in ts : t.id # id}

\* The handle setTimeout returns: one that is not in use.
NewTimerId(ts, e) ==
    LET free == {i \in 1..MaxTimers : i # e.updateTimeout /\ \A t \in ts : t.id # i}
    IN  IF free = {} THEN 0 ELSE CHOOSE i \in free : \A j \in free : i <= j

\* ACode.#update(delay): the pending callback is cleared and a new one is
\* scheduled.  A pending callback is its handle and, for the record, whether
\* the element was connected when it was scheduled.
Update(e) ==
    LET id == NewTimerId(timers, e)
    IN  /\ id # 0
        /\ timers' = ClearTimeout(timers, e.updateTimeout)
                          \cup {[id |-> id, attached |-> e.connected]}
        /\ el' = [e EXCEPT !.updateTimeout = id]
        /\ lastRun' = [ran |-> FALSE, replaced |-> (timers # {}), noop |-> FALSE]

\* ACode.#getContent(): the raw text of the element.
GetContent(d) == d.light

\* An update run that takes every text for the one it has rendered.
IsNoOpAlways(newContent, e) == TRUE

\* An update run that redoes everything although the text is the same.
IsNoOpNever(newContent, e) == FALSE

\* `if (newContent === this.#lastContent) return`.
IsNoOp(newContent, e) == e.lastContent = Content(newContent)

ErrUncaught == Diag("error", "Uncaught TypeError", "", <<>>)

(***************************************************************************)
(* Actions of the element.                                                 *)
(***************************************************************************)
\* A task starts only when the microtask queue has drained.
TaskMayStart == microq = <<>> /\ ~moPending

\* connectedCallback.
Connect ==
    /\ ~el.connected
    /\ el.highlight.on => FreshH(World) # 0
    /\ LET initialContent == ResetSpaces(dom.light)
           e1 == [el EXCEPT !.connected = TRUE,
                            !.lastContent = Content(initialContent)]
           x1 == SetAttributeOf([el |-> e1,
                                 dom |-> [dom EXCEPT !.content = initialContent]],
                                "indent", Attr(NumToString(el.indent)))
           x2 == SetLineNumbers(x1.el, x1.dom, x1.el.lineNumbers)
           r == IF el.highlight.on
                THEN HighlightCode(World, x2.el, x2.dom, el.highlight, "connect")
                ELSE [w |-> World, el |-> x2.el]
       IN  /\ el' = r.el
           /\ dom' = x2.dom
           /\ Commit(r.w)
    /\ UNCHANGED <<appliedSeq, lastPass, failedLoads, lastGood,
                   timers, rafs, moPending, lastRun>>
    /\ UNCHANGED svars

\* disconnectedCallback.
Disconnect ==
    /\ el.connected
    /\ Commit(DestroyHighlights(World, el))
    /\ el' = [el EXCEPT !.connected = FALSE, !.highlighter = 0,
                        !.palette = AttrAbsent]
    /\ moPending' = FALSE
    /\ UNCHANGED <<appliedSeq, lastPass, failedLoads, lastGood,
                   dom, timers, rafs, lastRun>>
    /\ UNCHANGED svars

\* The page changes the content of the element (innerHTML, textContent).
ChangeContent(raw) ==
    /\ dom' = [dom EXCEPT !.light = raw]
    /\ moPending' = (moPending \/ el.connected)
    /\ UNCHANGED <<hvars, appliedSeq, lastPass, failedLoads, lastGood,
                   el, timers, rafs, lastRun>>
    /\ UNCHANGED svars

\* The MutationObserver delivers its records: this.#update(records).
ObserverCallback ==
    /\ moPending
    /\ moPending' = FALSE
    /\ Update(el)
    /\ UNCHANGED <<hvars, appliedSeq, lastPass, failedLoads, lastGood, dom, rafs>>
    /\ UNCHANGED svars

\* set value(val).
SetValue(raw) ==
    /\ dom.light # raw
    /\ dom' = [dom EXCEPT !.light = raw]
    /\ moPending' = (moPending \/ el.connected)
    /\ Update(el)
    /\ UNCHANGED <<hvars, appliedSeq, lastPass, failedLoads, lastGood, rafs>>
    /\ UNCHANGED svars

\* The callback #update gave to setTimeout runs.
TimerFires(t) ==
    /\ t \in timers
    /\ TaskMayStart
    /\ timers' = timers \ {t}
    /\ LET rawContent == GetContent(dom)
           newContent == ResetSpaces(rawContent)
           e1 == [el EXCEPT !.lastContent = Content(newContent)]
           d1 == [dom EXCEPT !.content = newContent]
           x2 == IF el.lineNumbers THEN SetLineNumbers(e1, d1, el.lineNumbers)
                 ELSE [el |-> e1, dom |-> d1]
       IN  /\ lastRun' = [lastRun EXCEPT !.ran = TRUE,
                                          !.noop = IsNoOp(newContent, el)]
           /\ IF IsNoOp(newContent, el)
              THEN UNCHANGED <<hvars, el, dom, rafs>>
              ELSE IF ~el.connected
              THEN /\ el' = e1
                   /\ log' = log \cup {ErrUncaught}
                   /\ UNCHANGED <<hl, pending, microq, syntaxCache, highlights,
                                  superseded, importCount, dom, rafs>>
              ELSE /\ el' = x2.el
                   /\ dom' = x2.dom
                   /\ \E w \in {DestroyHighlights(World, el)} : Commit(w)
                   /\ IF el.highlight.on
                      THEN rafs < MaxRafs /\ rafs' = rafs + 1
                      ELSE UNCHANGED rafs
    /\ UNCHANGED <<appliedSeq, lastPass, failedLoads, lastGood, moPending>>
    /\ UNCHANGED svars

\* The callback #update gave to requestAnimationFrame runs: #highlightCode().
Frame ==
    /\ rafs > 0
    /\ TaskMayStart
    /\ Constructs(el, el.highlight) => FreshH(World) # 0
    /\ rafs' = rafs - 1
    /\ \E r \in {HighlightCode(World, el, dom, el.highlight, "content")} :
           el' = r.el /\ Commit(r.w)
    /\ UNCHANGED <<appliedSeq, lastPass, failedLoads, lastGood,
                   dom, timers, moPending, lastRun>>
    /\ UNCHANGED svars

\* setAttribute('highlight', v) or removeAttribute('highlight'):
\* attributeChangedCallback, case "highlight".
SetHighlightAttr(v) ==
    /\ v # dom.attrHighlight
    /\ Constructs(el, HighlightValue(v)) => FreshH(World) # 0
    /\ dom' = [dom EXCEPT !.attrHighlight = v]
    /\ LET e1 == [el EXCEPT !.highlight = HighlightValue(v)]
           r == HighlightCode(World, e1, dom, HighlightValue(v), "attribute")
       IN  el' = r.el /\ Commit(r.w)
    /\ UNCHANGED <<appliedSeq, lastPass, failedLoads, lastGood,
                   timers, rafs, moPending, lastRun>>
    /\ UNCHANGED svars

NextElem ==
    \/ Connect
    \/ Disconnect
    \/ \E raw \in RawTexts : ChangeContent(raw)
    \/ ObserverCallback
    \/ \E raw \in RawTexts : SetValue(raw)
    \/ \E t \in timers : TimerFires(t)
    \/ Frame
    \/ \E v \in HighlightAttrs : SetHighlightAttr(v)
    \/ \E c \in pending, o \in {"ok", "nodefault", "reject"} : ImportSettles(c, o)
    \/ Resume

SpecElem == Init /\ [][NextElem]_vars

(***************************************************************************)
(* The attributes and properties of the element.                           *)
(***************************************************************************)
\* The values the page gives an attribute; an absent value removes it.
AttrValues(a) ==
    CASE a \in {"inline", "line-numbers"} -> {AttrAbsent, Attr(<<>>), Attr(FalseStr)}
      [] a = "indent" -> {AttrAbsent, Attr(<<"4">>), Attr(<<"x">>)}
      [] a = "palette" -> {AttrAbsent, Attr(Default)}
      [] a = "wrap" -> {AttrAbsent, Attr(NoWrap)}

\* setAttribute(a, v) or removeAttribute(a) by the page; the setters of
\* indent, palette and wrap do the same (`this.setAttribute(a, value)`).
SetAttribute(a, v) ==
    /\ v # dom.attr[a]
    /\ LET x == SetAttributeOf([el |-> el, dom |-> dom], a, v)
       IN  el' = x.el /\ dom' = x.dom
    /\ UNCHANGED <<hvars, appliedSeq, lastPass, failedLoads, lastGood,
                   timers, rafs, moPending, lastRun>>
    /\ UNCHANGED svars

\* `el.inline = b` and `el.lineNumbers = b`: toggleAttribute(a, b) adds the
\* attribute with the value '' or removes it, and leaves one that is there.
AssignBool(a, b) ==
    /\ b # dom.attr[a].present
    /\ LET x == SetAttributeOf([el |-> el, dom |-> dom], a,
                               IF b THEN Attr(<<>>) ELSE AttrAbsent)
       IN  el' = x.el /\ dom' = x.dom
    /\ UNCHANGED <<hvars, appliedSeq, lastPass, failedLoads, lastGood,
                   timers, rafs, moPending, lastRun>>
    /\ UNCHANGED svars

NextAttr ==
    \/ Connect
    \/ Disconnect
    \/ \E a \in AttrNames : \E v \in AttrValues(a) : SetAttribute(a, v)
    \/ \E a \in {"inline", "line-numbers"}, b \in BOOLEAN : AssignBool(a, b)
    \/ \E v \in {AttrAbsent, Attr(FalseStr), Attr(Html)} : SetHighlightAttr(v)

SpecAttr == Init /\ [][NextAttr]_vars

\* The connected element with a content that changes, the tasks the browser
\* owes it being run in the end: the records of the MutationObserver are
\* delivered, a timer that is due fires, a requested animation frame comes,
\* and the microtask queue is drained.
NextLive ==
    \/ Connect
    \/ \E raw \in RawTexts : raw # dom.light /\ ChangeContent(raw)
    \/ \E v \in {Attr(FalseStr), Attr(Html)} : SetHighlightAttr(v)
    \/ ObserverCallback
    \/ \E t \in timers : TimerFires(t)
    \/ Frame
    \/ Resume

SpecLive ==
    /\ Init /\ [][NextLive]_vars
    /\ WF_vars(ObserverCallback)
    /\ WF_vars(\E t \in timers : TimerFires(t))
    /\ WF_vars(Frame)
    /\ WF_vars(Resume)

\* The element with its line-numbers and inline attributes and a content
\* that changes.
NextGutter ==
    \/ Connect
    \/ Disconnect
    \/ \E a \in {"inline", "line-numbers"} : \E v \in AttrValues(a) : SetAttribute(a, v)
    \/ \E raw \in RawTexts : SetValue(raw)
    \/ ObserverCallback
    \/ \E t \in timers : TimerFires(t)

SpecGutter == Init /\ [][NextGutter]_vars

(***************************************************************************)
(* Properties of the Highlighter.                                          *)
(***************************************************************************)
\* A step in which instance h ran a pass (its invocation passed the
\* staleness check and #doHighlights was called).
PassStep(h) == appliedSeq'[h] # appliedSeq[h]

\* The entries of p without entry i.
Without(es, i) == SubSeq(es, 1, i - 1) \o SubSeq(es, i + 1, Len(es))

\* Whether the loop over es on text s gets as far as entry i.
Reaches(es, i, s) == \A k \in 1..(i - 1) : ~Extract(es[k].rule, s).threw

\* The registry entries a pass of defs over node registers for id.
PassEntries(defs, node, id) == RegOf(DoHighlights(defs, node, id, <<>>, {}).reg, id)

\* C1: on one instance, an invocation that was still waiting for its
\* profile when a later invocation started is never applied, whichever
\* load resolves first: the applied request ids are strictly increasing
\* and none of them was superseded while in flight.
C1_StaleNeverApplied ==
    \A h \in HIDs :
        /\ \A i, j \in 1..Len(appliedSeq[h]) :
               i < j => appliedSeq[h][i] < appliedSeq[h][j]
        /\ \A i \in 1..Len(appliedSeq[h]) : appliedSeq[h][i] \notin superseded[h]

\* C1 witness: generation N+1 has been applied while generation N, whose
\* load resolved later, is still queued to resume.
C1_Witness ==
    \E h \in HIDs :
        /\ appliedSeq[h] = <<2>>
        /\ superseded[h] = {1}
        /\ Len(microq) = 1
        /\ microq[1].h = h /\ microq[1].req = 1

\* C2: after a pass the registry holds, for the instance, only ranges of
\* that pass: nothing registered by an earlier pass is left.
C2_PassClearsEarlier ==
    \A h \in HIDs :
        RegOf(highlights, h) \subseteq
            (IF lastPass[h].ran
             THEN PassEntries(lastPass[h].defs, lastPass[h].node, h)
             ELSE {})

\* C6: when a custom scanner throws during a pass, every other rule of the
\* profile that has ranges in the text is registered by that pass.
C6_ThrowSkipsOnlyThatRule ==
    [][\A h \in HIDs :
          PassStep(h) =>
              LET p == lastPass'[h]
                  es == p.defs.entries
                  s == p.node.text
              IN  (/\ p.node.present
                   /\ \E k \in 1..Len(es) :
                          es[k].rule.kind = "function" /\ Extract(es[k].rule, s).threw)
                  => \A i \in 1..Len(es) :
                         LET r == Extract(es[i].rule, s)
                         IN  (~r.threw /\ r.ranges # {})
                             => \E e \in RegOf(highlights', h) :
                                    /\ e.key = es[i].name
                                    /\ e.ranges = r.ranges
                                    /\ e.text = s]_vars

\* What C7 says of the entries of kind `kinds` in a pass of instance h: a
\* warning names the entry, nothing is registered under its name, and the
\* pass registers what it would register without the entry.
UnrecognizedHandled(h, kinds) ==
    LET p == lastPass'[h]
        es == p.defs.entries
        s == p.node.text
    IN  p.node.present =>
            \A i \in 1..Len(es) :
                (es[i].rule.kind \in kinds /\ Reaches(es, i, s)) =>
                    /\ WarnInvalid(es[i].name) \in log'
                    /\ ~RegHas(highlights', es[i].name, h)
                    /\ highlights' =
                           DoHighlights(Profile(Without(es, i)), p.node, h,
                                        highlights, log).reg

C8_FailedLoadUsesDefault ==
    \A h \in HIDs :
        (lastPass[h].ran /\ lastPass[h].loadFailed)
            => lastPass[h].defs = DefaultSyntaxDefs

\* C9: after a load failure for an identifier the default profile is
\* cached under it.
C9_FallbackCached ==
    \A n \in failedLoads : syntaxCache[n] = Cached(DefaultSyntaxDefs)

\* C10: resolutions of one identifier share a single in-flight load, and
\* the load of an identifier is started once.
C10_LoadsCoalesce ==
    \A n \in Names :
        /\ Cardinality({c \in pending : c.name = n}) <= 1
        /\ importCount[n] <= 1

\* The identifiers whose profile is in the cache as their module exports it.
Loaded ==
    {n \in Names : /\ ModuleDefault(Url(n), "ok").tag = "object"
                   /\ syntaxCache[n] = Cached(ModuleDefault(Url(n), "ok"))}

\* C11: once a named profile has been loaded, no step changes what is
\* cached under its identifier or starts another load of it, so every
\* later resolution is served the loaded profile from the cache.
C11_LoadedStaysCached ==
    [][\A n \in Loaded :
          /\ syntaxCache'[n] = syntaxCache[n]
          /\ importCount'[n] = importCount[n]]_vars

\* C12: the cache is append-only: a key that holds a value keeps that
\* value in every later state.
C12_CacheAppendOnly ==
    [][\A k \in CacheKeys :
          syntaxCache[k].has => syntaxCache'[k] = syntaxCache[k]]_vars

\* C13: a literal profile that has been resolved is cached under a key of
\* its own: the literal profiles of two instances that differ are under
\* two different keys.
C13_LiteralKeysDistinct ==
    \A g, h \in HIDs :
        (/\ hl[g].made /\ hl[g].syntax.kind = "object" /\ hl[g].latestRequestId > 0
         /\ hl[h].made /\ hl[h].syntax.kind = "object" /\ hl[h].latestRequestId > 0
         /\ hl[g].syntax.obj # hl[h].syntax.obj)
            => \E j, k \in CacheKeys :
                   /\ j # k
                   /\ syntaxCache[j] = Cached(hl[g].syntax.obj)
                   /\ syntaxCache[k] = Cached(hl[h].syntax.obj)

\* Whether entry i of es is reached on text s and has ranges to register.
HasRanges(es, i, s) ==
    /\ Reaches(es, i, s)
    /\ ~IsSkipped(es[i].rule) /\ ~IsUnrecognized(es[i].rule)
    /\ ~Extract(es[i].rule, s).threw
    /\ Extract(es[i].rule, s).ranges # {}

\* C14: within a pass, of two token types that both have ranges the one
\* declared later in the profile is registered after the other: in the
\* order of the registrations the pass makes, and in the registry for the
\* names the pass adds to it.
C14_DeclarationOrder ==
    [][\A h \in HIDs :
          PassStep(h) =>
              LET p == lastPass'[h]
                  es == p.defs.entries
                  s == p.node.text
                  calls == DoHighlights(p.defs, p.node, h, <<>>, {}).reg
              IN  p.node.present =>
                      \A i, j \in 1..Len(es) :
                          (i < j /\ HasRanges(es, i, s) /\ HasRanges(es, j, s)) =>
                              /\ RegHas(calls, es[i].name, h)
                              /\ RegIndex(calls, es[i].name, h)
                                     < RegIndex(calls, es[j].name, h)
                              /\ (/\ ~RegHas(highlights, es[i].name, h)
                                  /\ ~RegHas(highlights, es[j].name, h))
                                     => /\ RegHas(highlights', es[i].name, h)
                                        /\ RegIndex(highlights', es[i].name, h)
                                               < RegIndex(highlights', es[j].name, h)]_vars

\* C14: two instances have passed over a text with the same two rules in
\* opposite declaration order, and the registry holds `tag` after `string`
\* for the one and `string` after `tag` for the other.
C14_Witness ==
    \E g, h \in HIDs :
        /\ lastPass[g].ran /\ lastPass[g].defs = CustomDefs
        /\ lastPass[h].ran /\ lastPass[h].defs = LitReversed
        /\ lastPass[g].node = lastPass[h].node
        /\ RegHas(highlights, "string", g) /\ RegHas(highlights, "string", h)
        /\ RegIndex(highlights, "string", g) < RegIndex(highlights, "tag", g)
        /\ RegIndex(highlights, "tag", h) < RegIndex(highlights, "string", h)

(***************************************************************************)
(* Properties of the element.                                              *)
(***************************************************************************)
\* A step in which a callback scheduled by #update runs.
UpdateRun == timers' # timers /\ timers' \subseteq timers

\* C3: content changes that each arrive while the update scheduled by the
\* one before is still pending lead to one update run.  There is never more
\* than one update pending, it is the one scheduled last, and when it runs
\* it works on the content the element has at that moment.
C3_OneRunLatestContent ==
    [][/\ Cardinality(timers') <= 1
       /\ \A t \in timers' : t.id = el'.updateTimeout
       /\ UpdateRun => el'.lastContent = Content(ResetSpaces(GetContent(dom)))]_vars

\* C3: an update has run that had replaced a pending one, and nothing is
\* left to run.
C3_Witness ==
    /\ lastRun.ran /\ lastRun.replaced
    /\ timers = {}
    /\ el.connected
    /\ dom.content = ResetSpaces(dom.light)

\* C4: an update run whose normalized text is the last recorded text changes
\* nothing: not the rendered content, the line numbers, the highlighter, the
\* registered highlights, nor the passes in flight or scheduled.
C4_SameTextNoOp ==
    [][(UpdateRun /\ el.lastContent = Content(ResetSpaces(GetContent(dom))))
          => /\ dom' = dom
             /\ el' = el
             /\ hl' = hl
             /\ highlights' = highlights
             /\ rafs' = rafs /\ microq' = microq /\ pending' = pending]_vars

\* C4: an update has run on unchanged text while highlights were registered.
C4_Witness ==
    /\ lastRun.ran /\ lastRun.noop
    /\ el.connected /\ el.highlighter # 0
    /\ highlights # <<>>

\* C5: when the pass a content change led to has failed, the highlights the
\* previous successful pass registered are still registered.
C5_FailureKeepsPrevious ==
    \A h \in HIDs :
        (el.highlighter = h /\ el.fromUpdate /\ lastPass[h].ran /\ lastPass[h].threw)
            => lastGood \subseteq {highlights[k] : k \in 1..Len(highlights)}

\* C15: no failure reaches the caller: an update run never raises an
\* error that nothing catches.
C15_NothingRaises == ErrUncaught \notin log

\* C16: an update run whose normalized text differs from the last recorded
\* text writes the normalized text to the rendered content node.
C16_RunWritesContent ==
    [][(UpdateRun /\ el.lastContent # Content(ResetSpaces(GetContent(dom))))
          => dom'.content = ResetSpaces(GetContent(dom))]_vars

\* C17: after the pass a content change led to has failed, the last
\* recorded text is not the text of the failed pass, so that the same text
\* is not short-circuited by a later update run.
C17_FailedTextNotRecorded ==
    \A h \in HIDs :
        (/\ el.highlighter = h /\ el.fromUpdate
         /\ lastPass[h].ran /\ lastPass[h].threw /\ lastPass[h].node.present)
            => el.lastContent # Content(lastPass[h].node.text)

\* C25: destroy() on a highlighter whose pass has been applied leaves no
\* entry named with the id of that instance in the registry, and its
\* stylesheet is no longer adopted (the sheet is adopted from construction
\* until destroy() finds #element set, which it then clears).
C25_DestroyRemovesAll ==
    [][\A h \in HIDs :
          (hl[h].element /\ ~hl'[h].element /\ lastPass[h].ran)
              => RegOf(highlights', h) = {}]_vars

\* C26: an update run that was scheduled while the element was connected
\* and executes after disconnectedCallback changes nothing of the element
\* and raises nothing, an animation-frame callback that executes while the
\* element is disconnected changes nothing either, and a disconnected
\* element has no highlight registered and no observer record to deliver.
C26_NoEffectAfterDisconnect ==
    [][/\ (~el.connected /\ \E t \in timers \ timers' : t.attached /\ UpdateRun)
           => (el' = el /\ dom' = dom /\ log' = log)
       /\ (~el.connected /\ rafs' < rafs)
           => (el' = el /\ dom' = dom /\ log' = log /\ highlights' = highlights)
       /\ ~el'.connected => (highlights' = <<>> /\ ~moPending')]_vars

\* C27: each property getter returns the value its attribute determines,
\* with the documented
\* default for an attribute that is absent (for highlight the README names
\* html and the test suite false; either is taken).
C27_PropertiesFollowAttributes ==
    /\ el.inline = BoolAttr(dom.attr["inline"])
    /\ el.lineNumbers = BoolAttr(dom.attr["line-numbers"])
    /\ el.indent = IF dom.attr["indent"].present THEN ParseFloat(dom.attr["indent"])
                   ELSE Num(2)
    /\ el.palette = dom.attr["palette"]
    /\ el.wrap = IF dom.attr["wrap"].present THEN dom.attr["wrap"] ELSE Attr(Pre)
    /\ IF dom.attrHighlight.present
       THEN el.highlight = HighlightValue(dom.attrHighlight)
       ELSE el.highlight \in {HighlightOff, HighlightOn(Html)}

\* The element's highlighter has been asked to highlight the text.
PassStarted(text) ==
    /\ el.highlighter # 0
    /\ hl[el.highlighter].textNode = Node(text)
    /\ hl[el.highlighter].latestRequestId > 0

\* C28: a content r the connected element is given is rendered normalized
\* in the end, and with highlighting enabled a pass over it is started in the
\* end, unless the content changes again or highlighting is switched off
\* before that (or the Highlighter instances of the model are used up).
C28_ChangeIsRendered ==
    \A r \in RawTexts \cup {<<>>} :
        /\ (el.connected /\ dom.light = r)
               ~> \/ dom.content = ResetSpaces(r)
                  \/ dom.light # r
                  \/ FreshH(World) = 0
        /\ (el.connected /\ dom.light = r /\ el.highlight.on /\ ResetSpaces(r) # <<>>)
               ~> \/ PassStarted(ResetSpaces(r))
                  \/ dom.light # r \/ ~el.highlight.on
                  \/ FreshH(World) = 0

\* An update run has rendered a changed content and the frame after it has
\* started a pass over it.
C28_Witness ==
    /\ el.connected /\ el.highlight.on /\ el.fromUpdate
    /\ lastRun.ran /\ ~lastRun.noop
    /\ dom.light # <<>> /\ dom.content = ResetSpaces(dom.light)
    /\ PassStarted(dom.content)

\* C29: while the element is connected the gutter holds the numbers 1..N,
\* N the number of lines of the rendered content, if line numbers are
\* enabled, and nothing if they are disabled; no update run, attribute
\* change or reconnection leaves it otherwise.
C29_GutterNumbersLines ==
    el.connected =>
        dom.gutter = IF el.lineNumbers THEN [k \in 1..LineCount(dom.content) |-> k]
                     ELSE <<>>

\* C29 as stated: the gutter is empty whenever line numbers are disabled,
\* connected or not.
C29_AsStated ==
    /\ (el.connected /\ el.lineNumbers)
           => dom.gutter = [k \in 1..LineCount(dom.content) |-> k]
    /\ ~el.lineNumbers => dom.gutter = <<>>

\* An update run has rendered a content of two lines with line numbers on.
C29_Witness ==
    /\ el.connected /\ el.lineNumbers
    /\ lastRun.ran /\ ~lastRun.noop
    /\ dom.gutter = <<1, 2>>

(***************************************************************************)
(* The custom scanners of the syntax files.  A scanner is a function of    *)
(* the text; it is applied to headers put together from a head and a list  *)
(* of parameters.                                                          *)
(***************************************************************************)
\* Whether w occurs in s at 0-based offset i.
StartsWith(s, i, w) == i >= 0 /\ i + Len(w) <= Len(s) /\ Sub(s, i, i + Len(w)) = w

\* The offset after the longest run of characters of C that starts at i.
RECURSIVE SkipWhile(_, _, _)
SkipWhile(s, i, C) ==
    IF i < Len(s) /\ s[i + 1] \in C THEN SkipWhile(s, i + 1, C) ELSE i

\* string.indexOf(w), or -1.
IndexOf(s, w) ==
    LET at == {i \in 0..Len(s) : StartsWith(s, i, w)}
    IN  IF at = {} THEN -1 ELSE CHOOSE i \in at : \A j \in at : i <= j

\* string.trim()
Trim(s) ==
    LET a == SkipWhile(s, 0, WhiteSpace)
    IN  TrimEnd(Sub(s, a, Len(s)))

\* parts.join(sep)
RECURSIVE JoinWith(_, _)
JoinWith(parts, sep) ==
    IF parts = <<>> THEN <<>>
    ELSE IF Len(parts) = 1 THEN parts[1]
    ELSE parts[1] \o sep \o JoinWith(Tail(parts), sep)

\* The substrings of text the ranges cover, in the order of the ranges.
Substrings(text, ranges) ==
    [k \in 1..Len(ranges) |-> Sub(text, ranges[k][1], ranges[k][2])]

\* The most parameters a header of the model has.
MaxParams == 4

\* The lists of at most MaxParams parameters out of n parameter forms.
ParamLists(n) == UNION {[1..k -> 1..n] : k \in 0..MaxParams}

(***************************************************************************)
(* syntax.php.js: argument(string, node).                                  *)
(***************************************************************************)
\* [a-zA-Z_\x80-\xff]
NameStart == Lower \cup {"_"}

\* /function\s+(?:[a-zA-Z_\x80-\xff]\w*\s*)?\(/ at offset i: the offset after
\* the match, or -1.
PhpDefMatchAt(s, i) ==
    IF ~StartsWith(s, i, <<"f", "u", "n", "c", "t", "i", "o", "n">>) THEN -1
    ELSE LET a == i + 8
             b == SkipWhile(s, a, WhiteSpace)
             c == IF b < Len(s) /\ s[b + 1] \in NameStart
                  THEN SkipWhile(s, SkipWhile(s, b + 1, WordChars), WhiteSpace)
                  ELSE b
         IN  IF b = a THEN -1
             ELSE IF c < Len(s) /\ s[c + 1] = "(" THEN c + 1
             ELSE -1

\* string.matchAll(defRegex): with the matches that end before offset
\* st.pos found (st.out holds match.index + match[0].length of each), the
\* search at the offsets lo .. hi - 1.
RECURSIVE PhpDefMatchesIn(_, _, _, _)
PhpDefMatchesIn(s, lo, hi, st) ==
    IF lo >= hi THEN st
    ELSE IF hi = lo + 1
    THEN LET e == PhpDefMatchAt(s, lo)
         IN  IF lo < st.pos \/ e < 0 THEN st
             ELSE [pos |-> e, out |-> Append(st.out, e)]
    ELSE LET mid == (lo + hi) \div 2
         IN  CHOOSE r \in {IF half.pos >= hi THEN half
                            ELSE PhpDefMatchesIn(s, mid, hi, half) :
                                half \in {PhpDefMatchesIn(s, lo, mid, st)}} : TRUE

PhpDefMatches(s, i) == PhpDefMatchesIn(s, i, Len(s) + 1, [pos |-> i, out |-> <<>>]).out

\* \$[a-zA-Z_\x7f-\xff][a-zA-Z0-9_\x7f-\xff]* at offset k: the offset after
\* the match, or -1.
PhpNameAt(t, k) ==
    IF k + 1 < Len(t) /\ t[k + 1] = "$" /\ t[k + 2] \in NameStart
    THEN SkipWhile(t, k + 2, WordChars)
    ELSE -1

\* /((?:&|\.\.\.)?\$[a-zA-Z_\x7f-\xff][a-zA-Z0-9_\x7f-\xff]*)/ at offset p:
\* the offset after the match, or -1.
PhpVarMatchAt(t, p) ==
    LET m == IF StartsWith(t, p, <<"&">>) THEN 1
             ELSE IF StartsWith(t, p, <<".", ".", ".">>) THEN 3
             ELSE 0
    IN  PhpNameAt(t, p + m)

\* A scanner that counts the offset of the variable from the end of the raw
\* argument instead of its start.
PhpArgRangeFromEnd(s, from, to) ==
    LET rawArg == Sub(s, from, to)
        equalsIndex == IndexOf(rawArg, <<"=">>)
        searchPart == IF equalsIndex > -1 THEN Sub(rawArg, 0, equalsIndex) ELSE rawArg
        hits == {p \in 0..Len(searchPart) : PhpVarMatchAt(searchPart, p) >= 0}
    IN  IF Trim(rawArg) = <<>> \/ hits = {} THEN <<>>
        ELSE LET p == CHOOSE q \in hits : \A r \in hits : q <= r
                 fullMatchString == Sub(searchPart, p, PhpVarMatchAt(searchPart, p))
                 matchIndex == IndexOf(searchPart, fullMatchString)
                 start == to + matchIndex
             IN  << <<start, start + Len(fullMatchString)>> >>

\* The range of the variable of the raw argument s[from..to), if it has one.
PhpArgRange(s, from, to) ==
    LET rawArg == Sub(s, from, to)
        equalsIndex == IndexOf(rawArg, <<"=">>)
        searchPart == IF equalsIndex > -1 THEN Sub(rawArg, 0, equalsIndex) ELSE rawArg
        hits == {p \in 0..Len(searchPart) : PhpVarMatchAt(searchPart, p) >= 0}
    IN  IF Trim(rawArg) = <<>> \/ hits = {} THEN <<>>
        ELSE LET p == CHOOSE q \in hits : \A r \in hits : q <= r
                 fullMatchString == Sub(searchPart, p, PhpVarMatchAt(searchPart, p))
                 matchIndex == IndexOf(searchPart, fullMatchString)
                 start == from + matchIndex
             IN  << <<start, start + Len(fullMatchString)>> >>

\* One turn of the loop over the characters after the opening parenthesis:
\* the character at offset i in state st.  The loop ends (st.done) when the
\* parenthesis of the header closes.
PhpScanStep(s, i, st) ==
    IF st.done THEN st
    ELSE LET ch == s[i + 1]
         IN  IF st.q # ""
             THEN IF ch = st.q /\ ~(i >= 1 /\ s[i] = "\\")
                  THEN [st EXCEPT !.q = ""] ELSE st
             ELSE IF ch \in {"\"", "'"}
             THEN [st EXCEPT !.q = ch]
             ELSE LET dp == st.dp + (IF ch = "(" THEN 1 ELSE IF ch = ")" THEN -1 ELSE 0)
                      db == st.db + (IF ch = "[" THEN 1 ELSE IF ch = "]" THEN -1 ELSE 0)
                      dc == st.dc + (IF ch = "{" THEN 1 ELSE IF ch = "}" THEN -1 ELSE 0)
                      isComma == ch = "," /\ dp = 1 /\ db = 0 /\ dc = 0
                      isEnd == dp = 0
                  IN  [dp |-> dp, db |-> db, dc |-> dc, q |-> "",
                       start |-> IF isComma THEN i + 1 ELSE st.start,
                       out |-> IF isComma \/ isEnd
                               THEN st.out \o PhpArgRange(s, st.start, i)
                               ELSE st.out,
                       done |-> isEnd]

\* The turns of the loop for the offsets lo .. hi - 1 in order, from state
\* st (the range is halved to keep the evaluation shallow).
RECURSIVE PhpScanFrom(_, _, _, _)
PhpScanFrom(s, lo, hi, st) ==
    IF lo >= hi THEN st
    ELSE IF hi = lo + 1 THEN PhpScanStep(s, lo, st)
    ELSE LET mid == (lo + hi) \div 2
             half == PhpScanFrom(s, lo, mid, st)
         IN  IF half.done THEN half ELSE PhpScanFrom(s, mid, hi, half)

\* argument(string, node): the ranges pushed, in order.
RECURSIVE PhpArgumentOf(_, _)
PhpArgumentOf(s, starts) ==
    IF starts = <<>> THEN <<>>
    ELSE PhpScanFrom(s, Head(starts), Len(s),
                   [dp |-> 1, db |-> 0, dc |-> 0, q |-> "",
                    start |-> Head(starts), out |-> <<>>, done |-> FALSE]).out
             \o PhpArgumentOf(s, Tail(starts))

PhpArgument(s) == PhpArgumentOf(s, PhpDefMatches(s, 0))

\* PHP headers: a named and an anonymous function, and parameters by
\* reference, with a type hint and an array default, variadic, and plain.
PhpHeads ==
    << <<"f", "u", "n", "c", "t", "i", "o", "n", " ", "f", "o", "o", "(">>,
       <<"f", "u", "n", "c", "t", "i", "o", "n", " ", "(">> >>
PhpParams ==
    << <<"&", "$", "a">>,
       <<"i", "n", "t", " ", "$", "b", " ", "=", " ", "[", "1", ",", "2", "]">>,
       <<".", ".", ".", "$", "c">>,
       <<"$", "d">> >>
PhpNames == << <<"$", "a">>, <<"$", "b">>, <<"$", "c">>, <<"$", "d">> >>

PhpText(a) ==
    PhpHeads[a.head]
        \o JoinWith([k \in 1..Len(a.params) |-> PhpParams[a.params[k]]], <<",", " ">>)
        \o <<")">>

InitPhp ==
    /\ Idle
    /\ arg \in {[kind |-> "php", head |-> h, params |-> ps] :
                    h \in 1..Len(PhpHeads), ps \in ParamLists(Len(PhpParams))}
    /\ res = NoRes

\* The highlighter calls the argument scanner of syntax.php.js on the text.
ScanPhp ==
    /\ arg.kind = "php" /\ ~res.done
    /\ res' = [done |-> TRUE, ranges |-> PhpArgument(PhpText(arg))]
    /\ UNCHANGED <<hvars, appliedSeq, lastPass, failedLoads, lastGood, evars, arg>>

NextPhp == ScanPhp

SpecPhp == InitPhp /\ [][NextPhp]_vars

\* C18: for a PHP header the argument scanner emits one range per declared
\* parameter, and the range covers the variable name only.
C18_PhpNamesOnly ==
    (arg.kind = "php" /\ res.done)
        => Substrings(PhpText(arg), res.ranges)
               = [k \in 1..Len(arg.params) |-> PhpNames[arg.params[k]]]

(***************************************************************************)
(* syntax.python.js: argument(string, node).                               *)
(***************************************************************************)
\* string.lastIndexOf(w), or -1.
LastIndexOf(s, w) ==
    LET at == {i \in 0..Len(s) : StartsWith(s, i, w)}
    IN  IF at = {} THEN -1 ELSE CHOOSE i \in at : \A j \in at : i >= j

\* /def\s+[a-zA-Z_]\w*\s*\(/ at offset i: the offset after the match, or -1.
PyDefMatchAt(s, i) ==
    IF ~StartsWith(s, i, <<"d", "e", "f">>) THEN -1
    ELSE LET a == i + 3
             b == SkipWhile(s, a, WhiteSpace)
             c == SkipWhile(s, SkipWhile(s, b, WordChars), WhiteSpace)
         IN  IF b = a \/ ~(b < Len(s) /\ s[b + 1] \in NameStart) THEN -1
             ELSE IF c < Len(s) /\ s[c + 1] = "(" THEN c + 1
             ELSE -1

\* string.matchAll(defRegex): with the matches that end before offset
\* st.pos found (st.out holds match.index + match[0].length of each), the
\* search at the offsets lo .. hi - 1.
RECURSIVE PyDefMatchesIn(_, _, _, _)
PyDefMatchesIn(s, lo, hi, st) ==
    IF lo >= hi THEN st
    ELSE IF hi = lo + 1
    THEN LET e == PyDefMatchAt(s, lo)
         IN  IF lo < st.pos \/ e < 0 THEN st
             ELSE [pos |-> e, out |-> Append(st.out, e)]
    ELSE LET mid == (lo + hi) \div 2
         IN  CHOOSE r \in {IF half.pos >= hi THEN half
                            ELSE PyDefMatchesIn(s, mid, hi, half) :
                                half \in {PyDefMatchesIn(s, lo, mid, st)}} : TRUE

PyDefMatches(s, i) == PyDefMatchesIn(s, i, Len(s) + 1, [pos |-> i, out |-> <<>>]).out

\* The range of the name of the raw argument s[from..to), if it has one:
\* rawArg.match(/^\s*(\*{0,2})([a-zA-Z_]\w*)/).
PyArgRange(s, from, to) ==
    LET rawArg == Sub(s, from, to)
        a == SkipWhile(rawArg, 0, WhiteSpace)
        stars == SkipWhile(rawArg, a, {"*"})
        b == Min(stars, a + 2)
    IN  IF Trim(rawArg) = <<>> \/ ~(b < Len(rawArg) /\ rawArg[b + 1] \in NameStart)
        THEN <<>>
        ELSE LET e == SkipWhile(rawArg, b, WordChars)
                 argName == Sub(rawArg, b, e)
                 nameOffsetInMatch == LastIndexOf(Sub(rawArg, 0, e), argName)
                 start == from + 0 + nameOffsetInMatch
             IN  << <<start, start + Len(argName)>> >>

\* One turn of the loop over the characters after the opening parenthesis:
\* the character at offset i in state st.  The loop ends (st.done) when the
\* parenthesis of the header closes.
PyScanStep(s, i, st) ==
    IF st.done THEN st
    ELSE LET ch == s[i + 1]
         IN  IF st.q # ""
             THEN IF ch = st.q /\ ~(i >= 1 /\ s[i] = "\\")
                  THEN [st EXCEPT !.q = ""] ELSE st
             ELSE IF ch \in {"\"", "'"}
             THEN [st EXCEPT !.q = ch]
             ELSE LET dp == st.dp + (IF ch = "(" THEN 1 ELSE IF ch = ")" THEN -1 ELSE 0)
                      db == st.db + (IF ch = "[" THEN 1 ELSE IF ch = "]" THEN -1 ELSE 0)
                      dc == st.dc + (IF ch = "{" THEN 1 ELSE IF ch = "}" THEN -1 ELSE 0)
                      isComma == ch = "," /\ dp = 1 /\ db = 0 /\ dc = 0
                      isEnd == dp = 0
                  IN  [dp |-> dp, db |-> db, dc |-> dc, q |-> "",
                       start |-> IF isComma THEN i + 1 ELSE st.start,
                       out |-> IF isComma \/ isEnd
                               THEN st.out \o PyArgRange(s, st.start, i)
                               ELSE st.out,
                       done |-> isEnd]

\* The turns of the loop for the offsets lo .. hi - 1 in order, from state
\* st (the range is halved to keep the evaluation shallow).
RECURSIVE PyScanFrom(_, _, _, _)
PyScanFrom(s, lo, hi, st) ==
    IF lo >= hi THEN st
    ELSE IF hi = lo + 1 THEN PyScanStep(s, lo, st)
    ELSE LET mid == (lo + hi) \div 2
             half == PyScanFrom(s, lo, mid, st)
         IN  IF half.done THEN half ELSE PyScanFrom(s, mid, hi, half)

\* argument(string, node): the ranges pushed, in order.
RECURSIVE PyArgumentOf(_, _)
PyArgumentOf(s, starts) ==
    IF starts = <<>> THEN <<>>
    ELSE PyScanFrom(s, Head(starts), Len(s),
                   [dp |-> 1, db |-> 0, dc |-> 0, q |-> "",
                    start |-> Head(starts), out |-> <<>>, done |-> FALSE]).out
             \o PyArgumentOf(s, Tail(starts))

PyArgument(s) == PyArgumentOf(s, PyDefMatches(s, 0))

\* Python headers `def f(...)`: a plain parameter, a tuple default, the
\* bare star, a default, a starred parameter with a type hint, and string
\* defaults: "," and "\\" (one backslash, escaped).
PyHead == <<"d", "e", "f", " ", "f", "(">>
PyParams ==
    << <<"a">>,
       <<"b", "=", "(", "1", ",", "2", ")">>,
       <<"*">>,
       <<"c", "=", "3">>,
       <<"*", "r", ":", " ", "i", "n", "t">>,
       <<"t", "=", "\"", ",", "\"">>,
       <<"s", "=", "\"", "\\", "\\", "\"">> >>
PyNames == << <<"a">>, <<"b">>, <<>>, <<"c">>, <<"r">>, <<"t">>, <<"s">> >>

PyText(a) ==
    PyHead
        \o JoinWith([k \in 1..Len(a.params) |-> PyParams[a.params[k]]], <<",", " ">>)
        \o <<")">>

\* The names of the named parameters of the header, in order.
IsName(n) == n # <<>>
PyExpected(a) == SelectSeq([k \in 1..Len(a.params) |-> PyNames[a.params[k]]], IsName)

InitPy ==
    /\ Idle
    /\ arg \in {[kind |-> "python", head |-> 1, params |-> ps] :
                    ps \in ParamLists(Len(PyParams))}
    /\ res = NoRes

\* The highlighter calls the argument scanner of syntax.python.js on the text.
ScanPy ==
    /\ arg.kind = "python" /\ ~res.done
    /\ res' = [done |-> TRUE, ranges |-> PyArgument(PyText(arg))]
    /\ UNCHANGED <<hvars, appliedSeq, lastPass, failedLoads, lastGood, evars, arg>>

NextPy == ScanPy

SpecPy == InitPy /\ [][NextPy]_vars

\* C19: for a Python header the argument scanner emits one range per named
\* parameter, covering the bare identifier, and nothing else.
C19_PyNamesOnly ==
    (arg.kind = "python" /\ res.done)
        => Substrings(PyText(arg), res.ranges) = PyExpected(arg)

(***************************************************************************)
(* Keyword lists: the array branch of #doHighlights as a function of the   *)
(* list and the text.                                                      *)
(***************************************************************************)
\* The longest text a keyword list is applied to.
MaxTextLen == 4

\* The characters of those texts: two letters, the sigil and the space.
KwAlphabet == {"a", "b", "$", " "}
KwTexts == UNION {[1..n -> KwAlphabet] : n \in 0..MaxTextLen}

\* Keyword lists: one word, a word and a longer word that starts with it,
\* a list with a duplicate, and a word that begins with a non-identifier
\* character (as '$this' in syntax.php.js).
KwLists ==
    << << <<"a">> >>,
       << <<"a">>, <<"a", "b">> >>,
       << <<"a", "b">>, <<"a">>, <<"a", "b">> >>,
       << <<"$", "a">> >> >>

InitKw ==
    /\ Idle
    /\ arg \in {[kind |-> "keywords", words |-> KwLists[k], text |-> t] :
                    k \in 1..Len(KwLists), t \in KwTexts}
    /\ res = NoRes

\* #doHighlights reaches an entry whose value is the array arg.words, on a
\* text node with the text arg.text.
ScanKeywords ==
    /\ arg.kind = "keywords" /\ ~res.done
    /\ res' = [done |-> TRUE, ranges |-> Extract(ArrayRule(arg.words), arg.text).ranges]
    /\ UNCHANGED <<hvars, appliedSeq, lastPass, failedLoads, lastGood, evars, arg>>

NextKw == ScanKeywords

SpecKw == InitKw /\ [][NextKw]_vars

\* C20: every range a keyword list emits covers exactly one entry of the
\* list and has, on either side, a character that is no letter, digit or
\* underscore, or the start or end of the text.
C20_KeywordsBounded ==
    (arg.kind = "keywords" /\ res.done) =>
        \A r \in res.ranges :
            /\ \E k \in 1..Len(arg.words) : Sub(arg.text, r[1], r[2]) = arg.words[k]
            /\ ~IsWordAt(arg.text, r[1] - 1)
            /\ ~IsWordAt(arg.text, r[2])

(***************************************************************************)
(* The rule kinds as functions of the text: a pattern, a keyword list and  *)
(* the argument scanners of syntax.php.js and syntax.python.js, applied to *)
(* every text over a small alphabet.                                       *)
(***************************************************************************)
\* Patterns: alternations of the words a, ab, aa and the empty word, with
\* and without \b( )\b, all with the g flag.
PatWords == << << <<"a">> >>,
               << <<"a">>, <<"a", "b">> >>,
               << <<"a", "b">>, <<"a">> >>,
               << <<"a", "a">> >>,
               << <<>> >>,
               << <<>>, <<"a">> >>,
               << <<"b">>, <<>> >> >>
Patterns == {RegExp(PatWords[k], wb, TRUE) : k \in 1..Len(PatWords), wb \in BOOLEAN}
PatTexts == UNION {[1..n -> {"a", "b", " "}] : n \in 0..MaxTextLen}

\* The texts after the opening parenthesis of a header.
PhpBodies == UNION {[1..n -> {"$", "a", ",", " ", ")", "(", "=", "'"}] : n \in 0..MaxTextLen}
PyBodies == UNION {[1..n -> {"a", ",", " ", ")", "(", "=", "*", "'"}] : n \in 0..MaxTextLen}

InitRanges ==
    /\ Idle
    /\ arg \in {[kind |-> "pattern", re |-> re, text |-> t] :
                    re \in Patterns, t \in PatTexts}
          \cup {[kind |-> "keywords", words |-> KwLists[k], text |-> t] :
                    k \in 1..Len(KwLists), t \in KwTexts}
          \cup {[kind |-> "phpText", text |-> PhpHeads[2] \o b] : b \in PhpBodies}
          \cup {[kind |-> "pyText", text |-> PyHead \o b] : b \in PyBodies}
    /\ res = NoRes

\* #doHighlights reaches an entry whose value is the RegExp arg.re, on a
\* text node with the text arg.text: the Ranges of #setRanges in the order
\* they are added.
ScanPattern ==
    /\ arg.kind = "pattern" /\ ~res.done
    /\ res' = [done |-> TRUE, ranges |-> RangesOf(MatchAll(arg.re, arg.text))]
    /\ UNCHANGED <<hvars, appliedSeq, lastPass, failedLoads, lastGood, evars, arg>>

\* The highlighter calls the argument scanner of a syntax file on arg.text.
ScanArguments ==
    /\ arg.kind \in {"phpText", "pyText"} /\ ~res.done
    /\ res' = [done |-> TRUE,
               ranges |-> IF arg.kind = "phpText" THEN PhpArgument(arg.text)
                          ELSE PyArgument(arg.text)]
    /\ UNCHANGED <<hvars, appliedSeq, lastPass, failedLoads, lastGood, evars, arg>>

NextRanges == ScanPattern \/ ScanKeywords \/ ScanArguments

SpecRanges == InitRanges /\ [][NextRanges]_vars

\* The ranges of the result, whatever the rule kind.
Emitted ==
    IF arg.kind = "keywords" THEN res.ranges
    ELSE {res.ranges[k] : k \in 1..Len(res.ranges)}

\* C21: no rule kind emits a range whose end is not after its start: an
\* empty match of a pattern or of a keyword list is dropped, and an argument
\* of a header that is empty or all whitespace yields no range.
C21_NoEmptyRange ==
    res.done => \A r \in Emitted : r[2] > r[1]

\* A pattern that matches the empty word somewhere in the text emitted a
\* range all the same (the pattern (|a) on a text that holds " a").
C21_Witness ==
    /\ res.done /\ arg.kind = "pattern"
    /\ \E i \in 0..Len(arg.text) : MatchAt(arg.re, arg.text, i) = 0
    /\ res.ranges # <<>>

\* C22: every range the pattern rule, the keyword rule and the PHP and
\* Python argument scanners emit lies inside the text:
\* 0 <= start < end <= length of the text.
C22_RangesInsideText ==
    res.done => \A r \in Emitted : 0 <= r[1] /\ r[1] < r[2] /\ r[2] <= Len(arg.text)

\* A scanner emitted the range of a name that ends the text but for the
\* closing parenthesis.
C22_Witness ==
    /\ res.done /\ arg.kind = "pyText"
    /\ \E r \in Emitted : r[2] = Len(arg.text) - 1

\* C23: the ranges a pattern rule emits are in increasing order of their
\* start, no two of them overlap, and each covers a match of the pattern at
\* its place in the text.
C23_PatternRanges ==
    (arg.kind = "pattern" /\ res.done) =>
        /\ \A k \in 1..(Len(res.ranges) - 1) :
               /\ res.ranges[k][1] < res.ranges[k + 1][1]
               /\ res.ranges[k][2] <= res.ranges[k + 1][1]
        /\ \A k \in 1..Len(res.ranges) :
               /\ MatchAt(arg.re, arg.text, res.ranges[k][1])
                      = res.ranges[k][2] - res.ranges[k][1]
               /\ \E j \in 1..Len(arg.re.alts) :
                      Sub(arg.text, res.ranges[k][1], res.ranges[k][2]) = arg.re.alts[j]

\* The pattern (aa) emitted a range on a text where it also matches one
\* character further on, inside that range.
C23_Witness ==
    /\ res.done /\ arg.kind = "pattern"
    /\ \E k \in 1..Len(res.ranges) :
           /\ res.ranges[k][2] - res.ranges[k][1] = 2
           /\ MatchAt(arg.re, arg.text, res.ranges[k][1] + 1) = 2

(***************************************************************************)
(* The resource of a named profile as a function of the identifier.        *)
(***************************************************************************)
\* Identifiers: a stem of up to MaxStemLen characters after one of the
\* prefixes; '' and 'html' name the built-in profile and resolve to nothing.
MaxStemLen == 3
IdPrefixes ==
    { <<>>, <<".">>, <<".", "/">>, <<".", ".", "/">>, <<"/">>, <<"a", "/">>,
      <<"h", "t", "t", "p">>, <<"h", "t", "t", "p", ":", "/", "/">>,
      <<"h", "t", "t", "p", "s", ":", "/", "/">> }
IdStems == UNION {[1..n -> {"a", "d", ".", "/"}] : n \in 0..MaxStemLen}
Identifiers == {p \o t : p \in IdPrefixes, t \in IdStems} \ {<<>>}

InitUrl ==
    /\ Idle
    /\ arg \in {[kind |-> "identifier", name |-> n] : n \in Identifiers}
    /\ res = NoRes

\* #getSyntaxDefs computes the module specifier of the identifier arg.name,
\* which is not cached.
ResolveUrl ==
    /\ arg.kind = "identifier" /\ ~res.done
    /\ res' = [done |-> TRUE, url |-> Url(arg.name)]
    /\ UNCHANGED <<hvars, appliedSeq, lastPass, failedLoads, lastGood, evars, arg>>

NextUrl == ResolveUrl

SpecUrl == InitUrl /\ [][NextUrl]_vars

\* The forms of a location: a relative path (./x, ../x, .x), an absolute
\* path (/x) and a URL (http://x, https://x).
IsLocation(name) ==
    \/ StartsWith(name, 0, <<".">>)
    \/ StartsWith(name, 0, <<"/">>)
    \/ StartsWith(name, 0, <<"h", "t", "t", "p", ":", "/", "/">>)
    \/ StartsWith(name, 0, <<"h", "t", "t", "p", "s", ":", "/", "/">>)

\* C24: an identifier that is a relative path, an absolute path or a URL is
\* the resource location as it stands, and every other identifier X resolves
\* to ./syntax.X.js.
C24_ResourceByForm ==
    (arg.kind = "identifier" /\ res.done) =>
        res.url = IF IsLocation(arg.name) THEN arg.name
                  ELSE <<".", "/", "s", "y", "n", "t", "a", "x", ".">>
                           \o arg.name \o <<".", "j", "s">>

(***************************************************************************)
(* Normalization of the text.                                              *)
(***************************************************************************)
\* The longest raw text that is normalized.
MaxRawLen == 4
NormTexts == UNION {[1..n -> {" ", "\t", "\n", "a"}] : n \in 0..MaxRawLen}

InitNorm ==
    /\ Idle
    /\ arg \in {[kind |-> "raw", text |-> t] : t \in NormTexts}
    /\ res = NoRes

\* #resetSpaces(arg.text).
Normalize ==
    /\ arg.kind = "raw" /\ ~res.done
    /\ res' = [done |-> TRUE, text |-> ResetSpaces(arg.text)]
    /\ UNCHANGED <<hvars, appliedSeq, lastPass, failedLoads, lastGood, evars, arg>>

NextNorm == Normalize

SpecNorm == InitNorm /\ [][NextNorm]_vars

\* The number of leading spaces of a line, a tab counted as one space.
RECURSIVE LeadingBlanks(_)
LeadingBlanks(line) ==
    IF line # <<>> /\ line[1] \in {" ", "\t"} THEN 1 + LeadingBlanks(Tail(line)) ELSE 0

\* The text without its leading blank lines: lines of nothing but spaces
\* and tabs, each with the newline that ends it.
RECURSIVE DropBlankLines(_)
DropBlankLines(s) ==
    LET n == LeadingBlanks(s)
    IN  IF n < Len(s) /\ s[n + 1] = "\n"
        THEN DropBlankLines(SubSeq(s, n + 2, Len(s)))
        ELSE s

\* The line with `base` leading spaces removed, fewer if it has fewer, and
\* a tab for each leading space that remains.
Reindented(line, base) ==
    LET n == LeadingBlanks(line)
        keep == IF n > base THEN n - base ELSE 0
    IN  [k \in 1..keep |-> "\t"] \o TabsToSpaces(SubSeq(line, n + 1, Len(line)))

\* The text the normalization is to give: `body` is the text without its
\* leading blank lines and trailing whitespace.
NormalizedFrom(body) ==
    IF body = <<>> THEN <<>>
    ELSE LET lines == Split(body)
             base == LeadingBlanks(lines[1])
         IN  Join([k \in 1..Len(lines) |-> Reindented(lines[k], base)])

\* C30: the normalized text is the raw text without its leading blank lines
\* and its trailing whitespace, with the first line's count of leading
\* spaces (a tab counted as one) removed from the start of every line, fewer
\* if the line has fewer, and one tab for each leading space that remains.
C30_Normalization ==
    res.done => res.text = NormalizedFrom(TrimEnd(DropBlankLines(arg.text)))

(***************************************************************************)
(* The palette of a Highlighter.  A Map is the function from its keys to   *)
(* their colors; token types and colors are opaque names.                  *)
(***************************************************************************)
\* Highlighter.#defaultPalette.
DefaultPalette ==
    [k \in {"argument", "comment", "function", "keyword", "number", "operator",
            "property", "string", "variable", "tag"} |->
        CASE k = "argument" -> "hsl(32, 93%, 66%)"
          [] k = "comment" -> "hsl(221, 12%, 69%)"
          [] k = "function" -> "hsl(210, 50%, 60%)"
          [] k = "keyword" -> "deeppink"
          [] k = "number" -> "hsl(32, 93%, 50%)"
          [] k = "operator" -> "red"
          [] k = "property" -> "orchid"
          [] k = "string" -> "hsl(114, 31%, 68%)"
          [] k = "variable" -> "darkkhaki"
          [] k = "tag" -> "indianred"]

\* The most entries a custom palette of the model has.
MaxPairs == 2
PaletteKeys == {"keyword", "tag", "type"}
PaletteColors == {"purple", "olive"}
PalettePairs ==
    UNION {[1..n -> PaletteKeys \X PaletteColors] : n \in 0..MaxPairs}

\* new Map(pairs): the last pair of a key gives its value.
MapOf(pairs) ==
    [k \in {pairs[i][1] : i \in 1..Len(pairs)} |->
        LET last == CHOOSE i \in 1..Len(pairs) :
                        /\ pairs[i][1] = k
                        /\ \A j \in 1..Len(pairs) : pairs[j][1] = k => j <= i
        IN  pairs[last][2]]

\* The values the palette parameter takes: a Map, the string 'default', a
\* JSON string of an array of pairs, a string that is no JSON, and nothing.
Palettes ==
    {[form |-> "map", pairs |-> ps] : ps \in PalettePairs}
        \cup {[form |-> "json", pairs |-> ps] : ps \in PalettePairs}
        \cup {[form |-> f, pairs |-> <<>>] : f \in {"default", "invalid", "absent"}}

\* Highlighter.setPalette(palette): the Map that becomes #palette.
SetPalette(palette) ==
    IF palette.form \in {"map", "json"} THEN MapOf(palette.pairs)
    ELSE DefaultPalette

\* Highlighter.#createStyles(): the rules of the sheet, one for each entry of
\* #palette, `::highlight(key-id) { color: color; }`.
CreateStyles(map, id) ==
    {[key |-> k, id |-> id, color |-> map[k]] : k \in DOMAIN map}

InitPalette ==
    /\ Idle
    /\ arg \in {[kind |-> "palette", palette |-> p] : p \in Palettes}
    /\ res = NoRes

\* new Highlighter(element, syntax, arg.palette, 1): setPalette and then
\* #createStyles.
MakeStyles ==
    /\ arg.kind = "palette" /\ ~res.done
    /\ res' = [done |-> TRUE, rules |-> CreateStyles(SetPalette(arg.palette), 1)]
    /\ UNCHANGED <<hvars, appliedSeq, lastPass, failedLoads, lastGood, evars, arg>>

NextPalette == MakeStyles

SpecPalette == InitPalette /\ [][NextPalette]_vars

\* The colors the sheet gives the highlights of token type k.
ColorsOf(rules, k) == {r.color : r \in {q \in rules : q.key = k}}

\* C31: with a custom palette, every default token type has the color the
\* custom palette gives it if it defines the type, and its default color
\* otherwise.
C31_PaletteMerged ==
    (res.done /\ arg.palette.form \in {"map", "json"}) =>
        \A k \in DOMAIN DefaultPalette :
            ColorsOf(res.rules, k) =
                {IF k \in DOMAIN MapOf(arg.palette.pairs)
                 THEN MapOf(arg.palette.pairs)[k] ELSE DefaultPalette[k]}

(***************************************************************************)
(* The argument scanners, one turn of their loops at a time.  res holds    *)
(* the position of the scanner: the headers still to scan, whether the     *)
(* loop over the characters of a header is running, its index i and state  *)
(* st, the ranges pushed so far, and for the record the offsets the loop   *)
(* passed over as part of a quoted string (inert), the number of arguments *)
(* a comma has ended (cuts), the offset the loop began at (from), and how  *)
(* the loop of each header was left (left).                                *)
(***************************************************************************)
\* The most tokens the text after a header has.
MaxTokens == 4

\* The most tokens after a header where the scanner is checked to return.
MaxFairTokens == 3
ScanTokens(lang) ==
    IF lang = "php"
    THEN {<<"$", "a">>, <<",">>, <<"(">>, <<")">>, <<"[">>, <<"]">>,
          <<"'">>, <<"\"">>, <<"\\">>}
    ELSE {<<"a">>, <<",">>, <<"(">>, <<")">>, <<"{">>, <<"}">>,
          <<"'">>, <<"\"">>, <<"\\">>}

RECURSIVE Flatten(_)
Flatten(ts) == IF ts = <<>> THEN <<>> ELSE Head(ts) \o Flatten(Tail(ts))

ScanBodies(lang, n) ==
    {Flatten(ts) : ts \in UNION {[1..k -> ScanTokens(lang)] : k \in 0..n}}

ScanHead(lang) == IF lang = "php" THEN PhpHeads[2] ELSE PyHead

\* A text with one header, and a text with two: the second header follows
\* whatever the first one left open.
ScanTexts(lang, n) ==
    {ScanHead(lang) \o b : b \in ScanBodies(lang, n)}
        \cup {ScanHead(lang) \o b1 \o ScanHead(lang) \o b2 :
                  b1 \in ScanBodies(lang, 1) \ {<<>>}, b2 \in ScanBodies(lang, n - 2)}

\* No header has been scanned yet.
NoScan == [dp |-> 0, db |-> 0, dc |-> 0, q |-> "", start |-> 0, out |-> <<>>,
           done |-> FALSE]

\* A scanner that goes on from the state the scan of the header before
\* ended in.
ScanStartCarry(prev, startSearchIndex) ==
    [prev EXCEPT !.start = startSearchIndex, !.out = <<>>, !.done = FALSE]

\* The state the loop over the characters of a header starts in, whatever
\* the state prev the scan of the header before ended in.
ScanStart(prev, startSearchIndex) ==
    [dp |-> 1, db |-> 0, dc |-> 0, q |-> "",
     start |-> startSearchIndex, out |-> <<>>, done |-> FALSE]

\* A scanner that also pushes the argument the end of the text cut short.
ScanEndFlush(lang, s, st) ==
    IF st.done THEN st.out
    ELSE st.out \o (IF lang = "php" THEN PhpArgRange(s, st.start, Len(s))
                    ELSE PyArgRange(s, st.start, Len(s)))

\* The ranges the scan of a header has pushed when its loop is left.
ScanEnd(lang, s, st) == st.out

\* A loop in which every comma outside a quote ends the argument.
ScanStepAnyComma(lang, s, i, st) ==
    LET t == IF lang = "php" THEN PhpScanStep(s, i, st) ELSE PyScanStep(s, i, st)
    IN  IF st.q = "" /\ s[i + 1] = "," /\ ~t.done
        THEN [t EXCEPT !.start = i + 1,
                       !.out = st.out \o (IF lang = "php" THEN PhpArgRange(s, st.start, i)
                                           ELSE PyArgRange(s, st.start, i))]
        ELSE t

\* One turn of the loop of the scanner of the language.
ScanStep(lang, s, i, st) ==
    IF lang = "php" THEN PhpScanStep(s, i, st) ELSE PyScanStep(s, i, st)

ScanMatches(lang, s) ==
    IF lang = "php" THEN PhpDefMatches(s, 0) ELSE PyDefMatches(s, 0)

InitScanOf(n) ==
    /\ Idle
    /\ arg \in UNION {{[kind |-> "scan", lang |-> l, text |-> t] : t \in ScanTexts(l, n)} :
                          l \in {"php", "py"}}
    /\ res = [done |-> FALSE, called |-> FALSE, starts |-> <<>>, active |-> FALSE,
              i |-> 0, st |-> NoScan, ranges |-> <<>>,
              inert |-> {}, cuts |-> 0, from |-> 0, left |-> <<>>]

InitScan == InitScanOf(MaxTokens)

\* argument(string, node) is called: string.matchAll(defRegex).
CallScanner ==
    /\ arg.kind = "scan" /\ ~res.called
    /\ \E matches \in {ScanMatches(arg.lang, arg.text)} :
           res' = [res EXCEPT !.called = TRUE, !.starts = matches]
    /\ UNCHANGED <<hvars, appliedSeq, lastPass, failedLoads, lastGood, evars, arg>>

\* `for (const match of matches)`: the next header, and the state of its
\* scan.
NextHeader ==
    /\ arg.kind = "scan" /\ res.called /\ ~res.done
    /\ ~res.active /\ res.starts # <<>>
    /\ \E st \in {ScanStart(res.st, Head(res.starts))} :
           res' = [res EXCEPT !.starts = Tail(@), !.active = TRUE,
                              !.i = Head(res.starts), !.st = st,
                              !.inert = {}, !.cuts = 0, !.from = Head(res.starts)]
    /\ UNCHANGED <<hvars, appliedSeq, lastPass, failedLoads, lastGood, evars, arg>>

\* One turn of `for (let i = startSearchIndex; i < string.length; i++)`.
ScanChar ==
    /\ arg.kind = "scan" /\ res.active
    /\ res.i < Len(arg.text) /\ ~res.st.done
    /\ \E t \in {ScanStep(arg.lang, arg.text, res.i, res.st)} :
           res' = [res EXCEPT !.st = t, !.i = @ + 1,
                              !.inert = IF res.st.q # "" \/ t.q # ""
                                        THEN @ \cup {res.i} ELSE @,
                              !.cuts = IF t.start # res.st.start THEN @ + 1 ELSE @]
    /\ UNCHANGED <<hvars, appliedSeq, lastPass, failedLoads, lastGood, evars, arg>>

\* The loop over the characters is left: by `break`, or at the end of the
\* text.
EndHeader ==
    /\ arg.kind = "scan" /\ res.active
    /\ res.i >= Len(arg.text) \/ res.st.done
    /\ \E out \in {ScanEnd(arg.lang, arg.text, res.st)} :
           res' = [res EXCEPT !.active = FALSE,
                              !.ranges = @ \o out,
                              !.left = Append(@, [st |-> res.st, out |-> out,
                                                  cuts |-> res.cuts])]
    /\ UNCHANGED <<hvars, appliedSeq, lastPass, failedLoads, lastGood, evars, arg>>

\* `return ranges`.
ReturnRanges ==
    /\ arg.kind = "scan" /\ res.called /\ ~res.done
    /\ ~res.active /\ res.starts = <<>>
    /\ res' = [res EXCEPT !.done = TRUE]
    /\ UNCHANGED <<hvars, appliedSeq, lastPass, failedLoads, lastGood, evars, arg>>

NextScan == CallScanner \/ NextHeader \/ ScanChar \/ EndHeader \/ ReturnRanges

SpecScan == InitScan /\ [][NextScan]_vars

\* The scanner with its turns taken in the end: a loop that can take a turn
\* takes it.
SpecScanFair == InitScanOf(MaxFairTokens) /\ [][NextScan]_vars /\ WF_vars(NextScan)

\* The turn of the loop that res -> res' is, if it is one.
ScanTurn == res.active /\ res'.active /\ res'.i = res.i + 1

\* The characters open less the characters close among the offsets the loop
\* of the header has passed outside a quoted string.
DepthOf(open, close) ==
    LET seen(c) == {j \in res.from .. res.i - 1 :
                       j \notin res.inert /\ arg.text[j + 1] = c}
    IN  Cardinality(seen(open)) - Cardinality(seen(close))

\* C32: a comma ends the argument exactly when the scanner is outside a
\* quoted string and one parenthesis (that of the header), no bracket and no
\* brace is open; no other character ends one by way of a comma.
C32_CommaEndsArgument ==
    [][ScanTurn =>
          ((res'.cuts = res.cuts + 1) <=>
              /\ arg.text[res.i + 1] = ","
              /\ res.st.q = ""
              /\ DepthOf("(", ")") + 1 = 1
              /\ DepthOf("[", "]") = 0
              /\ DepthOf("{", "}") = 0)]_vars

\* The loop has passed a comma inside a nested call, array or map literal
\* and a comma that ended an argument.
C32_Witness ==
    /\ res.active /\ res.cuts >= 1
    /\ \E j \in res.from .. res.i - 1 :
           /\ arg.text[j + 1] = "," /\ j \notin res.inert
           /\ res.st.start > j + 1
           /\ \E k \in res.from .. j - 1 :
                  arg.text[k + 1] \in {"(", "[", "{"} /\ k \notin res.inert
    /\ res.cuts = 1

\* The backslashes in a row just before offset i.
RECURSIVE BackslashesBefore(_, _)
BackslashesBefore(s, i) ==
    IF i >= 1 /\ s[i] = "\\" THEN 1 + BackslashesBefore(s, i - 1) ELSE 0

\* C33: inside a quoted string no character changes a depth, ends an
\* argument or ends the list, and the string is closed exactly by its own
\* quote character when that is not escaped: an even number of backslashes
\* before it, as after an escaped backslash.
C33_QuotedIsInert ==
    [][(ScanTurn /\ res.st.q # "") =>
          /\ res'.st.dp = res.st.dp /\ res'.st.db = res.st.db /\ res'.st.dc = res.st.dc
          /\ res'.st.start = res.st.start /\ res'.st.out = res.st.out
          /\ ~res'.st.done
          /\ (res'.st.q = "") <=>
                 /\ arg.text[res.i + 1] = res.st.q
                 /\ BackslashesBefore(arg.text, res.i) % 2 = 0]_vars

\* The ranges of the scan of the header at startSearchIndex run alone.
AloneRanges(lang, s, startSearchIndex) ==
    IF lang = "php" THEN PhpArgumentOf(s, <<startSearchIndex>>)
    ELSE PyArgumentOf(s, <<startSearchIndex>>)

\* C34: the ranges returned are, header by header, the ranges of the scan
\* of that header run alone from the fresh state.
C34_HeadersIndependent ==
    res.done =>
        LET starts == ScanMatches(arg.lang, arg.text)
        IN  /\ Len(res.left) = Len(starts)
            /\ \A k \in 1..Len(starts) :
                   res.left[k].out = AloneRanges(arg.lang, arg.text, starts[k])

\* Two headers: the scan of the first ended inside a quoted string or with
\* something open, and the scan of the second pushed a range.
C34_Witness ==
    /\ res.done /\ Len(res.left) = 2
    /\ ~res.left[1].st.done
    /\ \/ res.left[1].st.q # ""
       \/ res.left[1].st.dp # 1 \/ res.left[1].st.db # 0 \/ res.left[1].st.dc # 0
    /\ res.left[2].out # <<>>

\* C39: the scanner returns, and the scan of a header that the text leaves
\* open has pushed at most one range for each argument a comma ended, each
\* before the last such comma.
C39_TerminatesAndCutsOnly ==
    /\ <>res.done
    /\ [](\A k \in 1..Len(res.left) :
              ~res.left[k].st.done =>
                  /\ Len(res.left[k].out) <= res.left[k].cuts
                  /\ \A n \in 1..Len(res.left[k].out) :
                         res.left[k].out[n][2] < res.left[k].st.start)

\* The scanner has returned from a text that ran out in the argument after
\* a comma, with the range of the argument before it.
C39_Witness ==
    /\ res.done /\ Len(res.left) = 1
    /\ ~res.left[1].st.done
    /\ res.left[1].cuts = 1 /\ Len(res.left[1].out) = 1
    /\ res.left[1].st.start < Len(arg.text)

(***************************************************************************)
(* destroy() while highlight() waits for its profile.                      *)
(***************************************************************************)
\* destroy() has been called on h and highlight() has not been called with
\* a text node since.
Destroyed(h) == hl[h].made /\ ~hl[h].element /\ ~hl[h].textNode.present

\* An invocation of highlight() on h that waited for its profile while
\* destroy() was called has resumed: it found no text node.
ResumedAfterDestroy(h) ==
    Destroyed(h) /\ lastPass[h].ran /\ ~lastPass[h].node.present

\* The calls of highlight() on one instance it takes to have two passes
\* behind and one invocation waiting.
MaxWaitCalls == 3

\* highlighter.highlight(textNode) on an instance that may have been called
\* MaxWaitCalls times.
HighlightAgain(h, node) ==
    /\ hl[h].made
    /\ hl[h].latestRequestId < MaxWaitCalls
    /\ Commit(Highlight(World, h, node))
    /\ UNCHANGED <<appliedSeq, lastPass, failedLoads, lastGood, evars>>
    /\ UNCHANGED svars

\* One instance for the 'js' profile, its calls, its loads and destroy().
NextDestroy ==
    \/ New(1, Named(Js))
    \/ \E t \in Texts : HighlightAgain(1, Node(t))
    \/ CallDestroy(1)
    \/ \E c \in pending, o \in {"ok", "reject"} : ImportSettles(c, o)
    \/ Resume

SpecDestroy == Init /\ [][NextDestroy]_vars

\* C35: when an invocation of highlight() that waited for its profile
\* across destroy() has resumed, the registry holds no entry named with the
\* id of the instance.
C35_NoEntryAfterDestroy ==
    \A h \in HIDs : ResumedAfterDestroy(h) => RegOf(highlights, h) = {}

\* The part of C35 about the invocation itself: resuming after destroy()
\* registers nothing.
C35_ResumeRegistersNothing ==
    [][\A h \in HIDs :
          (~ResumedAfterDestroy(h) /\ ResumedAfterDestroy(h)') =>
              RegOf(highlights', h) = RegOf(highlights, h)]_vars

(***************************************************************************)
(* The highlights registered for the element.                              *)
(***************************************************************************)
\* C36: every registered highlight is named with the id of the element's
\* current highlighter, which has not been destroyed, and was computed from
\* the text the content node holds.
C36_HighlightsAreCurrent ==
    \A k \in 1..Len(highlights) :
        /\ highlights[k].id = el.highlighter
        /\ hl[highlights[k].id].element
        /\ highlights[k].text = dom.content

\* Highlights are registered for the second highlighter of the element,
\* over a text that is not the first one rendered.
C36_Witness ==
    /\ el.connected /\ el.highlighter = 2
    /\ highlights # <<>>
    /\ lastRun.ran /\ ~lastRun.noop

(***************************************************************************)
(* Inline mode and line numbers.                                           *)
(***************************************************************************)
\* C37: on a connected element inline and lineNumbers are never both true;
\* a step that makes inline true leaves lineNumbers false, and a step that
\* makes lineNumbers true leaves inline false.
C37_InlineExcludesLineNumbers ==
    /\ [](el.connected => ~(el.inline /\ el.lineNumbers))
    /\ [][(el.connected /\ el'.connected) =>
             /\ (~el.inline /\ el'.inline) => ~el'.lineNumbers
             /\ (~el.lineNumbers /\ el'.lineNumbers) => ~el'.inline]_vars

\* Inline has been turned on, on a connected element: lineNumbers is
\* false, the attribute line-numbers is absent and the gutter is empty.
C37_Witness ==
    /\ el.connected /\ el.inline /\ ~el.lineNumbers
    /\ ~dom.attr["line-numbers"].present /\ dom.gutter = <<>>

(***************************************************************************)
(* Normalization applied twice.                                            *)
(***************************************************************************)
\* C38: normalizing the normalized text returns it unchanged.
C38_NormalizationIdempotent ==
    res.done => ResetSpaces(res.text) = res.text

====
